---- MODULE Spec2Model ----
(***************************************************************************)
(* Model of the equation balancer of the stoichiometry calculator          *)
(* (balanceChemicalEquation and the functions it calls).  A string is a    *)
(* sequence of one-character strings; a JavaScript null is the empty       *)
(* sequence where the code can only produce a non-empty value otherwise.   *)
(***************************************************************************)
EXTENDS Integers, Sequences, FiniteSets, TLC

(***************************************************************************)
(* Characters                                                              *)
(***************************************************************************)
Upper == {"A","B","C","D","E","F","G","H","I","J","K","L","M",
          "N","O","P","Q","R","S","T","U","V","W","X","Y","Z"}
Lower == {"a","b","c","d","e","f","g","h","i","j","k","l","m",
          "n","o","p","q","r","s","t","u","v","w","x","y","z"}
Digit == {"0","1","2","3","4","5","6","7","8","9"}
Sign == {"+","-"}
\* \s of the regular expressions
WS == {" ", "\t", "\n"}
\* the character class [A-Za-z0-9)\]]
SpeciesTail == Upper \cup Lower \cup Digit \cup {")", "]"}
\* the character class [slgaq]
PhaseLetter == {"s","l","g","a","q"}

DigitVal(c) ==
    CASE c = "0" -> 0 [] c = "1" -> 1 [] c = "2" -> 2 [] c = "3" -> 3
      [] c = "4" -> 4 [] c = "5" -> 5 [] c = "6" -> 6 [] c = "7" -> 7
      [] c = "8" -> 8 [] c = "9" -> 9

DigitChar(n) ==
    CASE n = 0 -> "0" [] n = 1 -> "1" [] n = 2 -> "2" [] n = 3 -> "3"
      [] n = 4 -> "4" [] n = 5 -> "5" [] n = 6 -> "6" [] n = 7 -> "7"
      [] n = 8 -> "8" [] n = 9 -> "9"

\* parseInt of a string of decimal digits
RECURSIVE parseIntFrom(_, _)
parseIntFrom(s, acc) ==
    IF s = <<>> THEN acc ELSE parseIntFrom(Tail(s), 10 * acc + DigitVal(Head(s)))
parseInt(s) == parseIntFrom(s, 0)

\* the decimal rendering of an integer inside a template string
RECURSIVE NatToChars(_)
NatToChars(n) ==
    IF n < 10 THEN <<DigitChar(n)>> ELSE NatToChars(n \div 10) \o <<DigitChar(n % 10)>>
IntToChars(n) == IF n < 0 THEN <<"-">> \o NatToChars(-n) ELSE NatToChars(n)

Abs(n) == IF n < 0 THEN -n ELSE n
Min2(a, b) == IF a < b THEN a ELSE b

\* s.slice(i - 1): the suffix of s that starts at (1-based) position i
From(s, i) == SubSeq(s, i, Len(s))
\* the first position >= i of s whose character is not in set cs (Len(s)+1 if none)
RECURSIVE SkipWhile(_, _, _)
SkipWhile(s, i, cs) ==
    IF i <= Len(s) /\ s[i] \in cs THEN SkipWhile(s, i + 1, cs) ELSE i
Contains(s, cs) == \E i \in 1..Len(s) : s[i] \in cs

\* String.prototype.trim
RECURSIVE TrimRight(_)
TrimRight(s) ==
    IF s # <<>> /\ s[Len(s)] \in WS THEN TrimRight(SubSeq(s, 1, Len(s) - 1)) ELSE s
Trim(s) == TrimRight(From(s, SkipWhile(s, 1, WS)))

\* s.split(c) for a one-character separator c: the list of pieces
RECURSIVE SplitChar(_, _, _)
SplitChar(s, c, cur) ==
    IF s = <<>> THEN <<cur>>
    ELSE IF Head(s) = c THEN <<cur>> \o SplitChar(Tail(s), c, <<>>)
    ELSE SplitChar(Tail(s), c, Append(cur, Head(s)))

(***************************************************************************)
(* normalizeChemInput                                                      *)
(***************************************************************************)
\* A character outside ASCII is written as its code point ("U+2082" is the
\* subscript two).  The superscript class of the source is the code-point
\* range U+2070..U+2079 plus U+207A and U+207B: superscript one, two and
\* three (U+00B9, U+00B2, U+00B3) lie outside it and are left alone.
Ascii == Upper \cup Lower \cup Digit \cup Sign \cup WS
         \cup {"(", ")", "[", "]", "^", ".", "=", ">", "_"}
NormChar(c) ==
    IF c \in Ascii THEN c ELSE
    CASE c = "U+2080" -> "0" [] c = "U+2081" -> "1" [] c = "U+2082" -> "2"
      [] c = "U+2083" -> "3" [] c = "U+2084" -> "4" [] c = "U+2085" -> "5"
      [] c = "U+2086" -> "6" [] c = "U+2087" -> "7" [] c = "U+2088" -> "8"
      [] c = "U+2089" -> "9"
      [] c = "U+2070" -> "0" [] c = "U+2074" -> "4" [] c = "U+2075" -> "5"
      [] c = "U+2076" -> "6" [] c = "U+2077" -> "7" [] c = "U+2078" -> "8"
      [] c = "U+2079" -> "9"
      [] c = "U+207A" -> "+" [] c = "U+207B" -> "-"
      [] c \in {"U+00B7", "U+2022"} -> "."
      [] c \in {"U+2212", "U+2013"} -> "-"
      [] OTHER -> c

\* .replace(/\s+/g, ' ')
RECURSIVE CollapseWS(_)
CollapseWS(s) ==
    IF s = <<>> THEN <<>>
    ELSE IF Head(s) \in WS
         THEN <<" ">> \o CollapseWS(From(s, SkipWhile(s, 1, WS)))
         ELSE <<Head(s)>> \o CollapseWS(Tail(s))

normalizeChemInput(s) ==
    IF s = <<>> THEN s
    ELSE Trim(CollapseWS([i \in 1..Len(s) |-> NormChar(s[i])]))

(***************************************************************************)
(* extractCharge                                                           *)
(***************************************************************************)
AllIn(s, cs) == \A i \in 1..Len(s) : s[i] \in cs
\* ^\d+[+-]$
IsDigitsSign(t) ==
    Len(t) >= 2 /\ t[Len(t)] \in Sign /\ AllIn(SubSeq(t, 1, Len(t) - 1), Digit)
\* ^[+-]\d+$
IsSignDigits(t) == Len(t) >= 2 /\ t[1] \in Sign /\ AllIn(Tail(t), Digit)
\* ^[+-]{1,2}$
IsSigns(t) == Len(t) \in {1, 2} /\ AllIn(t, Sign)
\* ^\d*[+-]$
IsOptDigitsSign(t) ==
    Len(t) >= 1 /\ t[Len(t)] \in Sign /\ AllIn(SubSeq(t, 1, Len(t) - 1), Digit)
\* (?:\d+[+-]|[+-]\d+|[+-]{1,2}|\d*[+-]) followed by $
IsChargeToken(t) == IsDigitsSign(t) \/ IsSignDigits(t) \/ IsSigns(t) \/ IsOptDigitsSign(t)

\* chargeRegex = /(.*?)(?:\^)?(token)$/ : the lazy first group takes the
\* shortest prefix after which an optional caret and a token reach the end;
\* the caret is consumed when the rest is a token, and left out otherwise
CaretToken(input, k) ==
    k < Len(input) /\ input[k + 1] = "^" /\ IsChargeToken(From(input, k + 2))
ChargeSplits(input) ==
    {k \in 0..Len(input) : CaretToken(input, k) \/ IsChargeToken(From(input, k + 1))}

Least(S) == CHOOSE k \in S : \A j \in S : k <= j

\* the groups of the match whose first group has length k
chargeGroups(input, k) ==
    [core |-> SubSeq(input, 1, k),
     token |-> IF CaretToken(input, k) THEN From(input, k + 2) ELSE From(input, k + 1)]

SignOf(c) == IF c = "+" THEN 1 ELSE -1

\* the sign and magnitude of a token, by the first pattern it matches;
\* 0 stands for the branch that returns the input unchanged
tokenCharge(token, digits) ==
    IF IsDigitsSign(token) THEN SignOf(token[Len(token)]) * parseInt(digits)
    ELSE IF IsSignDigits(token) THEN SignOf(token[1]) * parseInt(Tail(token))
    ELSE IF IsSigns(token) THEN SignOf(token[1]) * Len(token)
    ELSE IF IsOptDigitsSign(token)
    THEN SignOf(token[Len(token)]) * (IF digits # <<>> THEN parseInt(digits) ELSE 1)
    ELSE 0

\* the part of extractCharge after the match m
chargeFromMatch(input, m, charge) ==
    IF ~Contains(m.core, Upper \cup Lower \cup {"]"}) THEN [core |-> input, charge |-> 0]
    ELSE IF ~Contains(m.token, Sign) THEN [core |-> input, charge |-> 0]
    ELSE IF ~IsChargeToken(m.token) THEN [core |-> input, charge |-> 0]
    ELSE [core |-> Trim(m.core), charge |-> charge]

chargeFromGroups(input, m) ==
    chargeFromMatch(input, m, tokenCharge(m.token, SubSeq(m.token, 1, Len(m.token) - 1)))

chargeFromSplits(input, splits) ==
    IF splits = {} THEN [core |-> input, charge |-> 0]
    ELSE chargeFromGroups(input, chargeGroups(input, Least(splits)))

extractCharge(input) ==
    IF input = <<>> \/ input[Len(input)] \notin Sign
    THEN [core |-> input, charge |-> 0]
    ELSE chargeFromSplits(input, ChargeSplits(input))

(***************************************************************************)
(* Compositions: a JavaScript object used as a map keeps its keys in       *)
(* insertion order, so a composition is the sequence of its entries.       *)
(***************************************************************************)
HasKey(comp, el) == \E i \in 1..Len(comp) : comp[i].el = el
Count(comp, el) ==
    IF HasKey(comp, el)
    THEN comp[CHOOSE i \in 1..Len(comp) : comp[i].el = el].cnt
    ELSE 0
\* comp[el] = (comp[el] || 0) + n
AddCount(comp, el, n) ==
    IF HasKey(comp, el)
    THEN [i \in 1..Len(comp) |->
            IF comp[i].el = el THEN [el |-> el, cnt |-> comp[i].cnt + n] ELSE comp[i]]
    ELSE Append(comp, [el |-> el, cnt |-> n])
\* for (const [el, cnt] of Object.entries(src)) comp[el] = (comp[el] || 0) + cnt * mult
RECURSIVE AddAll(_, _, _)
AddAll(comp, src, mult) ==
    IF src = <<>> THEN comp
    ELSE AddAll(AddCount(comp, Head(src).el, Head(src).cnt * mult), Tail(src), mult)

(***************************************************************************)
(* parseSingleCompoundCore                                                 *)
(***************************************************************************)
\* parseNumber at position i: the digits read (val is 0 for the null of an
\* empty run, which the callers replace by 1 exactly as they replace a 0)
\* and the position after them
parseNumber(compound, i) ==
    LET j == SkipWhile(compound, i, Digit)
    IN  [val |-> parseInt(SubSeq(compound, i, j - 1)), index |-> j]
NumberOrOne(n) == IF n.val = 0 THEN 1 ELSE n.val

\* parseElement at position i: one character and the lowercase run after it
parseElement(compound, i) ==
    LET j == SkipWhile(compound, i + 1, Lower)
    IN  [el |-> SubSeq(compound, i, j - 1), index |-> j]

\* parseGroup: the loop of one nesting level, from position index with the
\* entries collected so far; charge is the variable shared by all levels
RECURSIVE parseGroup(_, _, _, _)
parseGroup(compound, index, elements, charge) ==
    IF index > Len(compound)
    THEN [elements |-> elements, index |-> index, charge |-> charge]
    ELSE LET char == compound[index] IN
      IF char \in {"(", "["}
      THEN LET g == parseGroup(compound, index + 1, <<>>, charge)
               closed == /\ g.index <= Len(compound)
                         /\ \/ char = "(" /\ compound[g.index] = ")"
                            \/ char = "[" /\ compound[g.index] = "]"
               n == parseNumber(compound, g.index + 1)
           IN  IF closed
               THEN parseGroup(compound, n.index,
                               AddAll(elements, g.elements, NumberOrOne(n)), g.charge)
               ELSE parseGroup(compound, g.index, elements, g.charge)
      ELSE IF char \in {")", "]"}
      THEN [elements |-> elements, index |-> index, charge |-> charge]
      ELSE IF char \in Upper
      THEN LET e == parseElement(compound, index)
               n == parseNumber(compound, e.index)
           IN  parseGroup(compound, n.index, AddCount(elements, e.el, NumberOrOne(n)), charge)
      ELSE IF char \in Sign
      THEN LET n == parseNumber(compound, index + 1)
           IN  parseGroup(compound, n.index, elements,
                          charge + (IF char = "+" THEN 1 ELSE -1) * NumberOrOne(n))
      ELSE parseGroup(compound, index + 1, elements, charge)

parseSingleCompoundCore(compound) ==
    LET parsed == parseGroup(compound, 1, <<>>, 0)
    IN  [composition |-> AddAll(<<>>, parsed.elements, 1), charge |-> parsed.charge]

(***************************************************************************)
(* parseChemicalFormula                                                    *)
(***************************************************************************)
\* /^(\d*)\s*(.+?)(\([slgaq]+\))?$/ on a non-empty string.  The greedy
\* digits and blanks give back one character when nothing is left for the
\* second group; the lazy second group stops before a final phase tag.
LastOpen(formula) ==
    IF \E j \in 1..Len(formula) : formula[j] = "("
    THEN CHOOSE j \in 1..Len(formula) :
            formula[j] = "(" /\ \A k \in (j + 1)..Len(formula) : formula[k] # "("
    ELSE 0

\* the character after the leading digits (to d) and blanks: the start of
\* the second group
GroupStart(s, d) == Min2(SkipWhile(s, d, WS), Len(s))

formulaGroups(formula, d, p, open, n) ==
    IF /\ open > p
       /\ formula[n] = ")"
       /\ open + 1 < n
       /\ AllIn(SubSeq(formula, open + 1, n - 1), PhaseLetter)
    THEN [digits |-> SubSeq(formula, 1, Min2(d, p) - 1),
          compoundRaw |-> SubSeq(formula, p, open - 1),
          phase |-> SubSeq(formula, open + 1, n - 1)]
    ELSE [digits |-> SubSeq(formula, 1, Min2(d, p) - 1),
          compoundRaw |-> From(formula, p),
          phase |-> <<>>]

formulaFromDigits(formula, d) ==
    formulaGroups(formula, d, GroupStart(formula, d), LastOpen(formula), Len(formula))

formulaRegexMatch(formula) == formulaFromDigits(formula, SkipWhile(formula, 1, Digit))

\* one hydrate part: /^(\d+)?(.*)$/ then parseSingleCompoundCore
RECURSIVE addHydrateParts(_, _, _)
addHydrateParts(parts, total, netCharge) ==
    IF parts = <<>> THEN [composition |-> total, charge |-> netCharge]
    ELSE IF Head(parts) = <<>> THEN addHydrateParts(Tail(parts), total, netCharge)
    ELSE LET d == SkipWhile(Head(parts), 1, Digit) IN
         LET partMultiplier == IF d > 1 THEN parseInt(SubSeq(Head(parts), 1, d - 1)) ELSE 1
             seg == parseSingleCompoundCore(From(Head(parts), d))
         IN  addHydrateParts(Tail(parts),
                             AddAll(total, seg.composition, partMultiplier),
                             netCharge + seg.charge * partMultiplier)

\* the result is a list: empty for null, else the one parsed species
formulaRecord(formula, m, h) ==
    [formula |-> m.compoundRaw,
     originalFormula |-> formula,
     coefficient |-> IF m.digits # <<>> THEN parseInt(m.digits) ELSE 1,
     composition |-> h.composition,
     charge |-> h.charge,
     phase |-> m.phase]

formulaFromMatch(formula, m) ==
    formulaRecord(formula, m, addHydrateParts(SplitChar(m.compoundRaw, ".", <<>>), <<>>, 0))

parseChemicalFormula(formula) ==
    IF formula = <<>> THEN <<>>
    ELSE <<formulaFromMatch(formula, formulaRegexMatch(formula))>>

(***************************************************************************)
(* parseSpeciesWithLeadingCoeff                                            *)
(***************************************************************************)
\* /^(\d+)?\s*(.+)$/ : the leading digits give back their last character
\* when the string holds nothing else
speciesRecordScaled(parsed, charge, digits) ==
    IF parsed = <<>> THEN <<>>
    ELSE <<[formula |-> parsed[1].formula,
            originalFormula |-> parsed[1].originalFormula,
            coefficient |-> parsed[1].coefficient,
            composition |->
                [i \in 1..Len(parsed[1].composition) |->
                    [el |-> parsed[1].composition[i].el,
                     cnt |-> parsed[1].composition[i].cnt
                             * (IF digits # <<>> THEN parseInt(digits) ELSE 1)]],
            charge |-> charge,
            phase |-> parsed[1].phase,
            userInputCoefficient |-> IF digits # <<>> THEN parseInt(digits) ELSE 1]>>

speciesRecord(parsed, charge, digits) ==
    IF parsed = <<>> THEN <<>>
    ELSE <<[formula |-> parsed[1].formula,
            originalFormula |-> parsed[1].originalFormula,
            coefficient |-> parsed[1].coefficient,
            composition |-> parsed[1].composition,
            charge |-> charge,
            phase |-> parsed[1].phase,
            userInputCoefficient |-> IF digits # <<>> THEN parseInt(digits) ELSE 1]>>

speciesFromCharge(ec, digits) == speciesRecord(parseChemicalFormula(ec.core), ec.charge, digits)

speciesFromGroups(trimmed, d, p) ==
    speciesFromCharge(extractCharge(From(trimmed, p)), SubSeq(trimmed, 1, Min2(d, p) - 1))

speciesFromDigits(trimmed, d) == speciesFromGroups(trimmed, d, GroupStart(trimmed, d))

speciesFromTrimmed(trimmed) ==
    IF trimmed = <<>> THEN <<>>
    ELSE speciesFromDigits(trimmed, SkipWhile(trimmed, 1, Digit))

parseSpeciesWithLeadingCoeff(speciesString) ==
    speciesFromTrimmed(normalizeChemInput(Trim(speciesString)))

(***************************************************************************)
(* parseEquationSide                                                       *)
(***************************************************************************)
\* sideString.split(/\s+\+\s+/)
RECURSIVE splitSpacedPlus(_, _, _)
splitSpacedPlus(s, i, cur) ==
    IF i > Len(s) THEN <<cur>>
    ELSE LET j == SkipWhile(s, i, WS)
             k == SkipWhile(s, j + 1, WS)
         IN  IF s[i] \in WS /\ j <= Len(s) /\ s[j] = "+" /\ k > j + 1
             THEN <<cur>> \o splitSpacedPlus(s, k, <<>>)
             ELSE splitSpacedPlus(s, i + 1, Append(cur, s[i]))

\* .replace(/([A-Za-z0-9)\]])\+([^-0-9(]|$)/g, ...): the placeholder that
\* stands for a protected plus sign is the one character PlusMark
PlusMark == "<PLUS>"
RECURSIVE protectPlus(_, _)
protectPlus(s, i) ==
    IF i > Len(s) THEN <<>>
    ELSE IF /\ s[i] \in SpeciesTail
            /\ i + 1 <= Len(s) /\ s[i + 1] = "+"
            /\ (i + 2 > Len(s) \/ s[i + 2] \notin (Digit \cup {"-", "("}))
         THEN <<s[i], PlusMark>>
              \o (IF i + 2 <= Len(s) THEN <<s[i + 2]>> ELSE <<>>)
              \o protectPlus(s, i + 3)
         ELSE <<s[i]>> \o protectPlus(s, i + 1)

restorePlus(t) == [i \in 1..Len(t) |-> IF t[i] = PlusMark THEN "+" ELSE t[i]]

sideTokens(sideString) ==
    LET tokens == splitSpacedPlus(sideString, 1, <<>>)
        loose == SplitChar(protectPlus(sideString, 1), "+", <<>>)
    IN  IF Len(tokens) = 1 /\ Contains(sideString, {"+"})
        THEN [i \in 1..Len(loose) |-> restorePlus(loose[i])]
        ELSE tokens

RECURSIVE parseTokens(_)
parseTokens(tokens) ==
    IF tokens = <<>> THEN <<>>
    ELSE parseSpeciesWithLeadingCoeff(Trim(Head(tokens))) \o parseTokens(Tail(tokens))

parseEquationSide(sideString) == parseTokens(sideTokens(sideString))

(***************************************************************************)
(* mergeDuplicates and cancelSpectatorsAndMergeDuplicates                  *)
(***************************************************************************)
\* `${compound.formula}_${compound.charge || 0}_${compound.phase || ''}`
speciesKey(compound) ==
    compound.formula \o <<"_">> \o IntToChars(compound.charge) \o <<"_">> \o compound.phase

RECURSIVE mergeInto(_, _)
mergeInto(species, merged) ==
    IF species = <<>> THEN merged
    ELSE LET compound == Head(species)
             key == speciesKey(compound)
             seen == {i \in 1..Len(merged) : speciesKey(merged[i]) = key}
         IN  IF seen # {}
             THEN mergeInto(Tail(species),
                    [i \in 1..Len(merged) |->
                        IF i \in seen
                        THEN [merged[i] EXCEPT !.coefficient = @ + compound.coefficient]
                        ELSE merged[i]])
             ELSE mergeInto(Tail(species), Append(merged, compound))

Positive(compound) == compound.coefficient > 0
mergeDuplicates(species) == SelectSeq(mergeInto(species, <<>>), Positive)

\* the two nested loops over finalReactants[i] and finalProducts[j]; a slot
\* set to null is recorded in rNull or pNull
RECURSIVE cancelLoop(_, _, _)
cancelLoop(st, i, j) ==
    IF i > Len(st.r) THEN st
    ELSE IF j > Len(st.p) THEN cancelLoop(st, i + 1, 1)
    ELSE LET reactant == st.r[i]
             product == st.p[j]
             minCoeff == Min2(reactant.coefficient, product.coefficient)
         IN  IF /\ j \notin st.pNull
                /\ reactant.formula = product.formula
                /\ reactant.charge = product.charge
                /\ reactant.phase = product.phase
                /\ minCoeff > 0
             THEN cancelLoop(
                    [r |-> [st.r EXCEPT ![i].coefficient = @ - minCoeff],
                     p |-> [st.p EXCEPT ![j].coefficient = @ - minCoeff],
                     rNull |-> IF reactant.coefficient = minCoeff
                               THEN st.rNull \cup {i} ELSE st.rNull,
                     pNull |-> IF product.coefficient = minCoeff
                               THEN st.pNull \cup {j} ELSE st.pNull,
                     canceled |-> Append(st.canceled,
                                    [formula |-> reactant.formula,
                                     coefficient |-> minCoeff,
                                     phase |-> reactant.phase])],
                    i, j + 1)
             ELSE cancelLoop(st, i, j + 1)

\* a variant of keepLive that keeps every entry
keepEvery(list, nulls, i) == list

\* the entries of a list at the positions outside nulls, in order
RECURSIVE keepLive(_, _, _)
keepLive(list, nulls, i) ==
    IF i > Len(list) THEN <<>>
    ELSE (IF i \notin nulls /\ list[i].coefficient > 0 THEN <<list[i]>> ELSE <<>>)
         \o keepLive(list, nulls, i + 1)

cancelSpectatorsAndMergeDuplicates(reactants, products) ==
    LET st == cancelLoop([r |-> mergeDuplicates(reactants),
                          p |-> mergeDuplicates(products),
                          rNull |-> {}, pNull |-> {}, canceled |-> <<>>], 1, 1)
    IN  [reactants |-> keepLive(st.r, st.rNull, 1),
         products |-> keepLive(st.p, st.pNull, 1),
         canceledSpectators |-> st.canceled]

(***************************************************************************)
(* parseChemicalEquation                                                   *)
(***************************************************************************)
\* .replace(/([A-Za-z0-9)\]]+)([0-9]*)([+-])/g, '$1^$2$3').  The first group
\* is greedy and its class holds the digits, so a match is a maximal run of
\* class characters with a sign right after it, the second group is empty,
\* and the replacement puts a caret between the run and the sign: every
\* sign that follows a class character gets a caret in front of it.
RECURSIVE caretBeforeSign(_, _)
caretBeforeSign(s, i) ==
    IF i > Len(s) THEN <<>>
    ELSE (IF s[i] \in Sign /\ i > 1 /\ s[i - 1] \in SpeciesTail
          THEN <<"^", s[i]>> ELSE <<s[i]>>)
         \o caretBeforeSign(s, i + 1)

\* the length of the arrow (?:U+2192|=>|->|=) that starts at position i, or 0
ArrowAt(s, i) ==
    IF i > Len(s) THEN 0
    ELSE IF s[i] = "U+2192" THEN 1
    ELSE IF s[i] = "=" /\ i < Len(s) /\ s[i + 1] = ">" THEN 2
    ELSE IF s[i] = "-" /\ i < Len(s) /\ s[i + 1] = ">" THEN 2
    ELSE IF s[i] = "=" THEN 1
    ELSE 0

\* /^(.*?)\s*(?:arrow)\s*(.*)$/ : the lazy first group ends at the first
\* position from which blanks and an arrow follow
ArrowSplits(s) == {k \in 0..Len(s) : ArrowAt(s, SkipWhile(s, k + 1, WS)) > 0}

arrowMatch(s) ==
    LET k == CHOOSE k \in ArrowSplits(s) : \A j \in ArrowSplits(s) : k <= j
        a == SkipWhile(s, k + 1, WS)
    IN  [left |-> SubSeq(s, 1, k),
         right |-> From(s, SkipWhile(s, a + ArrowAt(s, a), WS))]

\* the result is a list: empty for null, else the one parsed equation
parseChemicalEquation(eq) ==
    LET normalized == caretBeforeSign(normalizeChemInput(eq), 1)
        m == arrowMatch(normalized)
    IN  IF ArrowSplits(normalized) = {} THEN <<>>
        ELSE IF m.left = <<>> \/ m.right = <<>> THEN <<>>
        ELSE <<cancelSpectatorsAndMergeDuplicates(parseEquationSide(m.left),
                                                  parseEquationSide(m.right))>>

(***************************************************************************)
(* validateEquationForMode                                                 *)
(***************************************************************************)
validateEquationForMode(reactants, products, mode) ==
    LET allSpecies == reactants \o products
    IN  ~(mode = "standard" /\ \E i \in 1..Len(allSpecies) : allSpecies[i].charge # 0)

(***************************************************************************)
(* class Fraction: a pair num/den, den > 0, in lowest terms                *)
(***************************************************************************)
RECURSIVE gcd(_, _)
gcd(a, b) == IF b = 0 THEN a ELSE gcd(b, a % b)

\* the constructor, for a denominator that is not zero
Fraction(num, den) ==
    LET n == IF den < 0 THEN -num ELSE num
        d == IF den < 0 THEN -den ELSE den
        g == gcd(Abs(n), Abs(d))
    IN  [num |-> n \div g, den |-> d \div g]
Int2Frac(n) == Fraction(n, 1)

add(a, b) == Fraction(a.num * b.den + b.num * a.den, a.den * b.den)
subtract(a, b) == Fraction(a.num * b.den - b.num * a.den, a.den * b.den)
multiply(a, b) == Fraction(a.num * b.num, a.den * b.den)
divide(a, b) == Fraction(a.num * b.den, a.den * b.num)
isZero(a) == a.num = 0
abs(a) == Fraction(Abs(a.num), a.den)
\* a.toNumber() > b.toNumber(), the quotients compared exactly
GreaterNumber(a, b) == a.num * b.den > b.num * a.den
\* Math.round(a.toNumber()): the nearest integer, a half rounded up
RoundNumber(a) == (2 * a.num + a.den) \div (2 * a.den)

(***************************************************************************)
(* buildBalanceMatrix                                                      *)
(***************************************************************************)
RECURSIVE collectElements(_, _)
collectElements(comps, seen) ==
    IF comps = <<>> THEN seen
    ELSE LET el == Head(comps).el
         IN  collectElements(Tail(comps),
                             IF \E i \in 1..Len(seen) : seen[i] = el
                             THEN seen ELSE Append(seen, el))

RECURSIVE allEntries(_)
allEntries(compounds) ==
    IF compounds = <<>> THEN <<>>
    ELSE Head(compounds).composition \o allEntries(Tail(compounds))

\* a variant of elementRow that records the presence of an element, not its count
elementRowPresence(allCompounds, numReactants, element) ==
    [j \in 1..Len(allCompounds) |->
        IF Count(allCompounds[j].composition, element) = 0 THEN Int2Frac(0)
        ELSE IF j <= numReactants THEN Int2Frac(-1) ELSE Int2Frac(1)]

\* one element balance row: new Fraction(-count) for the reactants, new
\* Fraction(count) for the products, count = compound.composition[element] || 0
elementRow(allCompounds, numReactants, element) ==
    [j \in 1..Len(allCompounds) |->
        IF j <= numReactants
        THEN Int2Frac(-Count(allCompounds[j].composition, element))
        ELSE Int2Frac(Count(allCompounds[j].composition, element))]

chargeRow(allCompounds, numReactants) ==
    [j \in 1..Len(allCompounds) |->
        IF j <= numReactants
        THEN Int2Frac(-allCompounds[j].charge)
        ELSE Int2Frac(allCompounds[j].charge)]

\* a variant of withChargeRow that never adds the charge row
withoutChargeRow(elementRows, allCompounds, numReactants, includeCharge) == elementRows

\* if (includeCharge || hasCharge) matrix.push(row)
withChargeRow(elementRows, allCompounds, numReactants, includeCharge) ==
    IF includeCharge \/ \E i \in 1..Len(allCompounds) : allCompounds[i].charge # 0
    THEN Append(elementRows, chargeRow(allCompounds, numReactants))
    ELSE elementRows

matrixOf(allCompounds, numReactants, elementList, includeCharge) ==
    [threw |-> FALSE,
     matrix |-> withChargeRow([r \in 1..Len(elementList) |->
                                 elementRow(allCompounds, numReactants, elementList[r])],
                              allCompounds, numReactants, includeCharge),
     elements |-> elementList]

\* the result has threw = TRUE where the code throws "Parse failure"
buildBalanceMatrix(reactants, products, includeCharge) ==
    IF \E i \in 1..Len(reactants \o products) : (reactants \o products)[i].composition = <<>>
    THEN [threw |-> TRUE, matrix |-> <<>>, elements |-> <<>>]
    ELSE matrixOf(reactants \o products, Len(reactants),
                  collectElements(allEntries(reactants \o products), <<>>), includeCharge)

(***************************************************************************)
(* computeNullspace                                                        *)
(***************************************************************************)
\* the row of largest |entry| in column col among rows pivot..rows, the
\* first such row on a tie
RECURSIVE findMaxRow(_, _, _, _)
findMaxRow(augmented, col, row, maxRow) ==
    IF row > Len(augmented) THEN maxRow
    ELSE findMaxRow(augmented, col, row + 1,
            IF GreaterNumber(abs(augmented[row][col]), abs(augmented[maxRow][col]))
            THEN row ELSE maxRow)

\* [augmented[pivot], augmented[maxRow]] = [augmented[maxRow], augmented[pivot]]
swapRows(augmented, pivot, maxRow) ==
    [r \in 1..Len(augmented) |->
        IF r = pivot THEN augmented[maxRow]
        ELSE IF r = maxRow THEN augmented[pivot]
        ELSE augmented[r]]

\* the pivot row divided by its entry pivotVal
scalePivotRow(row, pivotVal) == [j \in 1..Len(row) |-> divide(row[j], pivotVal)]

\* every other row with a non-zero entry in column col loses that entry
eliminateRows(augmented, col, pivot, pivotRow) ==
    [r \in 1..Len(augmented) |->
        IF r = pivot THEN pivotRow
        ELSE IF isZero(augmented[r][col]) THEN augmented[r]
        ELSE [j \in 1..Len(augmented[r]) |->
                subtract(augmented[r][j], multiply(pivotRow[j], augmented[r][col]))]]

eliminateSwapped(augmented, col, pivot) ==
    eliminateRows(augmented, col, pivot,
                  scalePivotRow(augmented[pivot], augmented[pivot][col]))

\* one pass of the elimination loop for column col
eliminateColumn(augmented, col, pivot) ==
    eliminateSwapped(swapRows(augmented, pivot, findMaxRow(augmented, col, pivot + 1, pivot)),
                     col, pivot)

\* for (let col = 0; col < cols && pivot < rows; col++), with 1-based
\* columns and rows
RECURSIVE rowReduce(_, _, _, _, _)
rowReduce(augmented, cols, col, pivot, pivotCols) ==
    IF col > cols \/ pivot > Len(augmented)
    THEN [augmented |-> augmented, pivotCols |-> pivotCols]
    ELSE IF isZero(augmented[findMaxRow(augmented, col, pivot + 1, pivot)][col])
    THEN rowReduce(augmented, cols, col + 1, pivot, pivotCols)
    ELSE rowReduce(eliminateColumn(augmented, col, pivot), cols, col + 1, pivot + 1,
                   Append(pivotCols, col))

\* the pivots computeNullspace's loop chooses: for each pivot column, the
\* column as it stands before the swap, the first row not yet used and the
\* row chosen
RECURSIVE pivotsChosen(_, _, _, _, _)
pivotsChosen(augmented, cols, col, pivot, chosen) ==
    IF col > cols \/ pivot > Len(augmented) THEN chosen
    ELSE IF isZero(augmented[findMaxRow(augmented, col, pivot + 1, pivot)][col])
    THEN pivotsChosen(augmented, cols, col + 1, pivot, chosen)
    ELSE pivotsChosen(eliminateColumn(augmented, col, pivot), cols, col + 1, pivot + 1,
            Append(chosen, [column |-> [r \in 1..Len(augmented) |-> augmented[r][col]],
                            from |-> pivot,
                            row |-> findMaxRow(augmented, col, pivot + 1, pivot)]))

\* sum of augmented[i][j] * solution[j] for j = from..cols
RECURSIVE rowDot(_, _, _)
rowDot(row, solution, from) ==
    IF from > Len(row) THEN Int2Frac(0)
    ELSE add(multiply(row[from], solution[from]), rowDot(row, solution, from + 1))

\* a variant of backSubstitute that keeps the sign of the sum
RECURSIVE backSubstituteUnsigned(_, _, _, _)
backSubstituteUnsigned(augmented, pivotCols, i, solution) ==
    IF i = 0 THEN solution
    ELSE backSubstituteUnsigned(augmented, pivotCols, i - 1,
            [solution EXCEPT ![pivotCols[i]] =
                rowDot(augmented[i], solution, pivotCols[i] + 1)])

\* back-substitution over the pivots i, i-1, ..., 1
RECURSIVE backSubstitute(_, _, _, _)
backSubstitute(augmented, pivotCols, i, solution) ==
    IF i = 0 THEN solution
    ELSE backSubstitute(augmented, pivotCols, i - 1,
            [solution EXCEPT ![pivotCols[i]] =
                multiply(rowDot(augmented[i], solution, pivotCols[i] + 1), Int2Frac(-1))])

\* the free columns of a reduction, and one back-substituted vector for each
freeVarsOf(pivotCols, cols) ==
    SelectSeq([c \in 1..cols |-> c],
              LAMBDA c : ~\E i \in 1..Len(pivotCols) : pivotCols[i] = c)

unitVector(freeCol, cols) == [j \in 1..cols |-> Int2Frac(IF j = freeCol THEN 1 ELSE 0)]

basisFromFree(red, freeVars, cols) ==
    IF freeVars = <<>> THEN [kind |-> "null", basis |-> <<>>]
    ELSE [kind |-> "basis",
          basis |-> [f \in 1..Len(freeVars) |->
                       backSubstitute(red.augmented, red.pivotCols,
                                      Len(red.pivotCols), unitVector(freeVars[f], cols))]]

basisFromReduced(red, cols) == basisFromFree(red, freeVarsOf(red.pivotCols, cols), cols)

\* kind is "throw" where matrix[0] is undefined, "null" where no column is
\* free, else "basis"
computeNullspace(matrix) ==
    IF matrix = <<>> THEN [kind |-> "throw", basis |-> <<>>]
    ELSE basisFromReduced(rowReduce(matrix, Len(matrix[1]), 1, 1, <<>>), Len(matrix[1]))

(***************************************************************************)
(* convertToIntegers, evaluateNullspaceSolution, findBestIntegerSolution   *)
(***************************************************************************)
\* a variant of gcdTwo whose recursion ends in 1, not in a
RECURSIVE gcdTwoEndsInOne(_, _)
gcdTwoEndsInOne(a, b) == IF b = 0 THEN 1 ELSE gcdTwoEndsInOne(b, a % b)

RECURSIVE gcdTwo(_, _)
gcdTwo(a, b) == IF b = 0 THEN a ELSE gcdTwo(b, a % b)

lcmTwo(a, b) == Abs(a * b) \div gcdTwo(a, b)

RECURSIVE lcmOfDenominators(_, _)
lcmOfDenominators(fractions, lcm) ==
    IF fractions = <<>> THEN lcm
    ELSE lcmOfDenominators(Tail(fractions),
            IF isZero(Head(fractions)) THEN lcm ELSE lcmTwo(lcm, Head(fractions).den))

RECURSIVE gcdOfIntegers(_, _)
gcdOfIntegers(integers, g) ==
    IF integers = <<>> THEN g
    ELSE gcdOfIntegers(Tail(integers),
            IF Head(integers) = 0 THEN g ELSE gcdTwo(g, Abs(Head(integers))))

MinOf(integers) ==
    CHOOSE m \in {integers[i] : i \in 1..Len(integers)} :
        \A i \in 1..Len(integers) : m <= integers[i]
MaxOf(integers) ==
    CHOOSE m \in {integers[i] : i \in 1..Len(integers)} :
        \A i \in 1..Len(integers) : m >= integers[i]
RECURSIVE SumOf(_)
SumOf(integers) == IF integers = <<>> THEN 0 ELSE Head(integers) + SumOf(Tail(integers))

\* fractions.map(f => Math.round(f.multiply(new Fraction(lcm)).toNumber()))
scaleToIntegers(fractions, lcm) ==
    [i \in 1..Len(fractions) |-> RoundNumber(multiply(fractions[i], Int2Frac(lcm)))]

\* if (minVal < 0) every entry changes sign
flipIfNegative(integers) ==
    IF integers # <<>> /\ MinOf(integers) < 0
    THEN [i \in 1..Len(integers) |-> -integers[i]] ELSE integers

divideByGcd(integers, gcdVal) ==
    IF gcdVal > 1
    THEN [i \in 1..Len(integers) |-> integers[i] \div gcdVal]
    ELSE integers

reduceByGcd(integers) == divideByGcd(integers, gcdOfIntegers(integers, 0))

convertToIntegers(fractions) ==
    reduceByGcd(flipIfNegative(scaleToIntegers(fractions, lcmOfDenominators(fractions, 1))))

\* a variant of allPositive that tests integers[i] < 0 where the code tests <= 0
allNonNegative(integers, numReactants) == \A i \in 1..Len(integers) : integers[i] >= 0

\* the sign test of evaluateNullspaceSolution
allPositive(integers, numReactants) ==
    /\ \A i \in 1..numReactants : integers[i] > 0
    /\ \A i \in (numReactants + 1)..Len(integers) : integers[i] > 0

\* a variant of scoreIntegers that accepts a candidate whatever its signs
scoreAnySign(integers, numReactants) ==
    <<[coefficients |-> integers, score |-> MaxOf(integers) * 1000 + SumOf(integers)]>>

scoreIntegers(integers, numReactants) ==
    IF allPositive(integers, numReactants)
    THEN <<[coefficients |-> integers,
            score |-> MaxOf(integers) * 1000 + SumOf(integers)]>>
    ELSE <<>>

\* the result is a list: empty for null, else the one accepted candidate
evaluateNullspaceSolution(basis, numReactants) ==
    scoreIntegers(convertToIntegers(basis), numReactants)

negate(vector) == [j \in 1..Len(vector) |-> multiply(vector[j], Int2Frac(-1))]

\* if (solution && solution.score < bestScore): best is a list, empty while
\* bestSolution is null (bestScore = Infinity)
better(solution, best) ==
    IF solution # <<>> /\ (best = <<>> \/ solution[1].score < best[1].score)
    THEN solution ELSE best

\* the running best over a list of vectors, each tried with its negation
RECURSIVE bestAmong(_, _, _)
bestAmong(vectors, numReactants, best) ==
    IF vectors = <<>> THEN best
    ELSE bestAmong(Tail(vectors), numReactants,
            better(evaluateNullspaceSolution(negate(Head(vectors)), numReactants),
                   better(evaluateNullspaceSolution(Head(vectors), numReactants), best)))

maxWeight == 3
maxBasis == 3

\* the weights generateWeights reaches n-th (n = 0, 1, ...): the first basis
\* vector's weight is the slowest to change, each runs -maxWeight..maxWeight
RECURSIVE weightsOf(_, _)
weightsOf(n, numBasis) ==
    IF numBasis = 0 THEN <<>>
    ELSE Append(weightsOf(n \div (2 * maxWeight + 1), numBasis - 1),
                (n % (2 * maxWeight + 1)) - maxWeight)

RECURSIVE Power(_, _)
Power(b, e) == IF e = 0 THEN 1 ELSE b * Power(b, e - 1)

RECURSIVE combine(_, _, _, _)
combine(nullspaceBasis, weights, i, combined) ==
    IF i > Len(weights) THEN combined
    ELSE combine(nullspaceBasis, weights, i + 1,
            [j \in 1..Len(combined) |->
                add(combined[j], multiply(nullspaceBasis[i][j], Int2Frac(weights[i])))])

zeroVector(n) == [j \in 1..n |-> Int2Frac(0)]

\* the candidate evaluated at place order: a combination or its negation
candidate(combined, order, numReactants) ==
    [order |-> order,
     solution |-> evaluateNullspaceSolution(
                    IF order % 2 = 1 THEN negate(combined) ELSE combined, numReactants)]

candidateAt(nullspaceBasis, numReactants, numBasis, order) ==
    candidate(combine(nullspaceBasis, weightsOf(order \div 2, numBasis), 1,
                      zeroVector(Len(nullspaceBasis[1]))),
              order, numReactants)

\* the places of evaluation: combination n (all-zero weights skipped), then
\* its negation
triedOrders(numBasis) ==
    {o \in 0..(2 * Power(2 * maxWeight + 1, numBasis) - 1) :
        \E i \in 1..numBasis : weightsOf(o \div 2, numBasis)[i] # 0}

\* the candidates generateWeights accepts, each with its place in the order
\* of evaluation
acceptedCombinations(nullspaceBasis, numReactants, numBasis) ==
    {c \in {candidateAt(nullspaceBasis, numReactants, numBasis, o) :
                o \in triedOrders(numBasis)} :
        c.solution # <<>>}

smallestScore(accepted) ==
    CHOOSE m \in {c.solution[1].score : c \in accepted} :
        \A c \in accepted : m <= c.solution[1].score

earliest(winners) == CHOOSE c \in winners : \A d \in winners : c.order <= d.order

winnersOf(accepted, smallest) == {c \in accepted : c.solution[1].score = smallest}

\* a candidate replaces the best one only when its score is strictly
\* smaller, so the result is the first candidate of the smallest score
firstBest(accepted) ==
    IF accepted = {} THEN <<>>
    ELSE earliest(winnersOf(accepted, smallestScore(accepted))).solution

searchIntegerCombinations(nullspaceBasis, numReactants) ==
    firstBest(acceptedCombinations(nullspaceBasis, numReactants,
                                   Min2(Len(nullspaceBasis), maxBasis)))

\* if (!bestSolution && nullspaceBasis.length > 1)
afterSingleVectors(nullspaceBasis, numReactants, single) ==
    IF single = <<>> /\ Len(nullspaceBasis) > 1
    THEN searchIntegerCombinations(nullspaceBasis, numReactants)
    ELSE single

coefficientsOf(found) == IF found = <<>> THEN <<>> ELSE <<found[1].coefficients>>

\* the result is a list: empty for null, else the coefficient vector
findBestIntegerSolution(nullspaceBasis, numReactants) ==
    IF nullspaceBasis = <<>> THEN <<>>
    ELSE coefficientsOf(afterSingleVectors(nullspaceBasis, numReactants,
                                           bestAmong(nullspaceBasis, numReactants, <<>>)))

(***************************************************************************)
(* attemptChargeMismatchDiagnostic                                         *)
(***************************************************************************)
\* the three ion sets of inferCounterIons
ionSets(netDelta) ==
    IF netDelta > 0
    THEN <<[ion |-> "Cl-", charge |-> -1], [ion |-> "NO3-", charge |-> -1],
           [ion |-> "SO4^2-", charge |-> -2]>>
    ELSE <<[ion |-> "K+", charge |-> 1], [ion |-> "Na+", charge |-> 1],
           [ion |-> "Ca^2+", charge |-> 2]>>

\* Math.ceil(a / b) for a >= 0 and b > 0
mathCeil(a, b) == (a + b - 1) \div b
\* Math.sign
mathSign(n) == IF n > 0 THEN 1 ELSE IF n < 0 THEN -1 ELSE 0

\* a suggestion `${count} ${set.ion}` is the record of its count and its set
counterIon(set, netDelta) ==
    [count |-> mathCeil(Abs(netDelta), Abs(set.charge)), ion |-> set.ion, charge |-> set.charge]

\* the test that pushes a suggestion
suggested(s, netDelta) ==
    \/ s.count * s.charge = (IF netDelta > 0 THEN -Abs(netDelta) ELSE Abs(netDelta))
    \/ mathSign(s.count * s.charge) # mathSign(netDelta)

inferCounterIons(netDelta) ==
    IF Abs(netDelta) = 0 THEN <<>>
    ELSE SelectSeq([i \in 1..3 |-> counterIon(ionSets(netDelta)[i], netDelta)],
                   LAMBDA s : suggested(s, netDelta))

\* sum of charge * coefficient over a side whose first coefficient is at
\* position offset + 1
RECURSIVE sideCharge(_, _, _)
sideCharge(species, coeffs, offset) ==
    IF species = <<>> THEN 0
    ELSE species[Len(species)].charge * coeffs[offset + Len(species)]
         + sideCharge(SubSeq(species, 1, Len(species) - 1), coeffs, offset)

\* the result is a list: empty for null (also when the try block catches),
\* else the one diagnostic
diagnosticFromCharges(reason, coeffsElementOnly, reactantCharge, productCharge) ==
    IF reactantCharge = productCharge THEN <<>>
    ELSE <<[type |-> "CHARGE_IMBALANCE",
            reason |-> reason,
            coefficients |-> coeffsElementOnly,
            reactantCharge |-> reactantCharge,
            productCharge |-> productCharge,
            counterIons |-> inferCounterIons(productCharge - reactantCharge)]>>

diagnosticFromCoefficients(reactants, products, reason, found) ==
    IF found = <<>> THEN <<>>
    ELSE diagnosticFromCharges(reason, found[1],
                               sideCharge(reactants, found[1], 0),
                               sideCharge(products, found[1], Len(reactants)))

diagnosticFromNullspace(reactants, products, reason, nullspaceElementOnly) ==
    IF nullspaceElementOnly.kind # "basis" THEN <<>>
    ELSE diagnosticFromCoefficients(reactants, products, reason,
            findBestIntegerSolution(nullspaceElementOnly.basis, Len(reactants)))

diagnosticFromMatrix(reactants, products, reason, elementOnly) ==
    IF elementOnly.threw THEN <<>>
    ELSE diagnosticFromNullspace(reactants, products, reason,
                                 computeNullspace(elementOnly.matrix))

attemptChargeMismatchDiagnostic(reactants, products, reason) ==
    diagnosticFromMatrix(reactants, products, reason,
                         buildBalanceMatrix(reactants, products, FALSE))

(***************************************************************************)
(* OxidationStateEngine.  An element is the sequence of its letters; the   *)
(* oxidation states of a species are a function from its assigned         *)
(* elements to Fractions, which stand for the quotients JavaScript forms.  *)
(***************************************************************************)
\* this.rules, in the order of the array
rules ==
    <<"freeElement", "ionicCompound", "fluoride", "alkaliMetal", "alkalineEarth",
      "hydrogen", "oxygen", "halogen", "neutralCompound">>

\* this.elementGroups
alkaliMetals ==
    {<<"L", "i">>, <<"N", "a">>, <<"K">>, <<"R", "b">>, <<"C", "s">>, <<"F", "r">>}
alkalineEarths ==
    {<<"B", "e">>, <<"M", "g">>, <<"C", "a">>, <<"S", "r">>, <<"B", "a">>, <<"R", "a">>}
halogens ==
    << <<"F">>, <<"C", "l">>, <<"B", "r">>, <<"I">>, <<"A", "t">> >>
transitionMetals ==
    {<<"S", "c">>, <<"T", "i">>, <<"V">>, <<"C", "r">>, <<"M", "n">>, <<"F", "e">>,
     <<"C", "o">>, <<"N", "i">>, <<"C", "u">>, <<"Z", "n">>, <<"Y">>, <<"Z", "r">>,
     <<"N", "b">>, <<"M", "o">>, <<"T", "c">>, <<"R", "u">>, <<"R", "h">>, <<"P", "d">>,
     <<"A", "g">>, <<"C", "d">>, <<"L", "a">>, <<"H", "f">>, <<"T", "a">>, <<"W">>,
     <<"R", "e">>, <<"O", "s">>, <<"I", "r">>, <<"P", "t">>, <<"A", "u">>, <<"H", "g">>}

\* this.commonOxidationStates[element], the empty list when there is no entry
commonOxidationStates(element) ==
    CASE element = <<"H">> -> <<1, -1>>
      [] element = <<"L", "i">> -> <<1>>
      [] element = <<"N", "a">> -> <<1>>
      [] element = <<"K">> -> <<1>>
      [] element = <<"R", "b">> -> <<1>>
      [] element = <<"C", "s">> -> <<1>>
      [] element = <<"B", "e">> -> <<2>>
      [] element = <<"M", "g">> -> <<2>>
      [] element = <<"C", "a">> -> <<2>>
      [] element = <<"S", "r">> -> <<2>>
      [] element = <<"B", "a">> -> <<2>>
      [] element = <<"B">> -> <<3>>
      [] element = <<"A", "l">> -> <<3>>
      [] element = <<"G", "a">> -> <<3>>
      [] element = <<"C">> -> <<4, 2, -4>>
      [] element = <<"S", "i">> -> <<4, -4>>
      [] element = <<"N">> -> <<5, 4, 3, 2, 1, 0, -1, -2, -3>>
      [] element = <<"P">> -> <<5, 3, -3>>
      [] element = <<"A", "s">> -> <<5, 3, -3>>
      [] element = <<"O">> -> <<-2, -1, 0>>
      [] element = <<"S">> -> <<6, 4, 2, 0, -2>>
      [] element = <<"F">> -> <<-1>>
      [] element = <<"C", "l">> -> <<7, 5, 3, 1, -1>>
      [] element = <<"B", "r">> -> <<7, 5, 1, -1>>
      [] element = <<"I">> -> <<7, 5, 1, -1>>
      [] element = <<"F", "e">> -> <<3, 2>>
      [] element = <<"C", "u">> -> <<2, 1>>
      [] element = <<"Z", "n">> -> <<2>>
      [] element = <<"A", "g">> -> <<1>>
      [] element = <<"A", "u">> -> <<3, 1>>
      [] element = <<"C", "r">> -> <<6, 3>>
      [] element = <<"M", "n">> -> <<7, 4, 2>>
      [] element = <<"N", "i">> -> <<2>>
      [] element = <<"C", "o">> -> <<3, 2>>
      [] element = <<"P", "b">> -> <<4, 2>>
      [] element = <<"S", "n">> -> <<4, 2>>
      [] OTHER -> <<>>

\* elements[element] || 50
getAtomicNumber(element) ==
    CASE element = <<"H">> -> 1
      [] element = <<"H", "e">> -> 2
      [] element = <<"L", "i">> -> 3
      [] element = <<"B", "e">> -> 4
      [] element = <<"B">> -> 5
      [] element = <<"C">> -> 6
      [] element = <<"N">> -> 7
      [] element = <<"O">> -> 8
      [] element = <<"F">> -> 9
      [] element = <<"N", "e">> -> 10
      [] element = <<"N", "a">> -> 11
      [] element = <<"M", "g">> -> 12
      [] element = <<"A", "l">> -> 13
      [] element = <<"S", "i">> -> 14
      [] element = <<"P">> -> 15
      [] element = <<"S">> -> 16
      [] element = <<"C", "l">> -> 17
      [] element = <<"A", "r">> -> 18
      [] element = <<"K">> -> 19
      [] element = <<"C", "a">> -> 20
      [] element = <<"F", "e">> -> 26
      [] element = <<"C", "u">> -> 29
      [] element = <<"Z", "n">> -> 30
      [] element = <<"A", "g">> -> 47
      [] element = <<"A", "u">> -> 79
      [] OTHER -> 50

\* the default list of findValidAssignment for an element without an entry
defaultOxidationStates == <<-3, -2, -1, 0, 1, 2, 3, 4, 5, 6>>

guessOxidationState(element) ==
    IF element \in transitionMetals THEN 2
    ELSE IF getAtomicNumber(element) <= 2 THEN 0
    ELSE IF getAtomicNumber(element) <= 10 THEN getAtomicNumber(element) - 2
    ELSE 2

\* oxidationStates[element] = value, for each element of a set
assignStates(oxidationStates, elements, value) ==
    [e \in DOMAIN oxidationStates \cup elements |->
        IF e \in elements THEN Int2Frac(value) ELSE oxidationStates[e]]

\* composition[element] is truthy and the element is not yet assigned
unassigned(composition, oxidationStates, element) ==
    Count(composition, element) # 0 /\ element \notin DOMAIN oxidationStates

hasMetals(composition) ==
    \E i \in 1..Len(composition) :
        composition[i].el \in alkaliMetals \/ composition[i].el \in alkalineEarths

isPeroxide(composition) ==
    \/ (Count(composition, <<"H">>) = 2 /\ Count(composition, <<"O">>) = 2)
    \/ (Len(composition) = 2 /\ Count(composition, <<"O">>) > 1)

\* the switch of applyRule; 'ionicCompound' and 'neutralCompound' have no case
applyRule(ruleName, composition, charge, oxidationStates) ==
    CASE ruleName = "freeElement" ->
            IF Len(composition) = 1 /\ charge = 0
            THEN assignStates(oxidationStates, {composition[1].el}, 0)
            ELSE oxidationStates
      [] ruleName = "alkaliMetal" ->
            assignStates(oxidationStates,
                {e \in alkaliMetals : unassigned(composition, oxidationStates, e)}, 1)
      [] ruleName = "alkalineEarth" ->
            assignStates(oxidationStates,
                {e \in alkalineEarths : unassigned(composition, oxidationStates, e)}, 2)
      [] ruleName = "fluoride" ->
            IF unassigned(composition, oxidationStates, <<"F">>)
            THEN assignStates(oxidationStates, {<<"F">>}, -1)
            ELSE oxidationStates
      [] ruleName = "hydrogen" ->
            IF unassigned(composition, oxidationStates, <<"H">>)
            THEN assignStates(oxidationStates, {<<"H">>},
                              IF hasMetals(composition) THEN -1 ELSE 1)
            ELSE oxidationStates
      [] ruleName = "oxygen" ->
            IF /\ unassigned(composition, oxidationStates, <<"O">>)
               /\ Count(composition, <<"F">>) = 0
            THEN assignStates(oxidationStates, {<<"O">>},
                              IF isPeroxide(composition) THEN -1 ELSE -2)
            ELSE oxidationStates
      [] ruleName = "halogen" ->
            assignStates(oxidationStates,
                {halogens[i] : i \in {j \in 2..Len(halogens) :
                    /\ unassigned(composition, oxidationStates, halogens[j])
                    /\ Count(composition, <<"O">>) = 0}}, -1)
      [] OTHER -> oxidationStates

\* for (const rule of this.rules) this.applyRule(rule.name, ...)
RECURSIVE applyRules(_, _, _, _)
applyRules(names, composition, charge, oxidationStates) ==
    IF names = <<>> THEN oxidationStates
    ELSE applyRules(Tail(names), composition, charge,
                    applyRule(Head(names), composition, charge, oxidationStates))

\* the result is a list: empty for null, else the one assignment
RECURSIVE findValidAssignment(_, _, _)
RECURSIVE tryOxidationStates(_, _, _, _)
tryOxidationStates(elements, composition, targetCharge, states) ==
    IF states = <<>> THEN <<>>
    ELSE IF Len(elements) = 1
    THEN IF targetCharge - Head(states) * Count(composition, Head(elements)) = 0
         THEN <<[e \in {Head(elements)} |-> Int2Frac(Head(states))]>>
         ELSE <<>>
    ELSE LET restAssignment ==
                 findValidAssignment(Tail(elements), composition,
                     targetCharge - Head(states) * Count(composition, Head(elements)))
         IN  IF restAssignment # <<>>
             THEN <<assignStates(restAssignment[1], {Head(elements)}, Head(states))>>
             ELSE tryOxidationStates(elements, composition, targetCharge, Tail(states))

findValidAssignment(elements, composition, targetCharge) ==
    IF elements = <<>> THEN <<[e \in {} |-> Int2Frac(0)]>>
    ELSE IF Len(elements) > 3 THEN <<>>
    ELSE tryOxidationStates(elements, composition, targetCharge,
            IF commonOxidationStates(Head(elements)) # <<>>
            THEN commonOxidationStates(Head(elements))
            ELSE defaultOxidationStates)

\* the fallback of assignCommonOxidationStates: the first common state, or a guess
RECURSIVE assignFallback(_, _)
assignFallback(unknownElements, oxidationStates) ==
    IF unknownElements = <<>> THEN oxidationStates
    ELSE assignFallback(Tail(unknownElements),
            assignStates(oxidationStates, {Head(unknownElements)},
                IF commonOxidationStates(Head(unknownElements)) # <<>>
                THEN commonOxidationStates(Head(unknownElements))[1]
                ELSE guessOxidationState(Head(unknownElements))))

assignCommonFrom(unknownElements, oxidationStates, assignments) ==
    IF assignments # <<>>
    THEN [e \in DOMAIN oxidationStates \cup DOMAIN assignments[1] |->
            IF e \in DOMAIN assignments[1] THEN assignments[1][e] ELSE oxidationStates[e]]
    ELSE assignFallback(unknownElements, oxidationStates)

assignCommonOxidationStates(unknownElements, composition, remainingCharge, oxidationStates) ==
    assignCommonFrom(unknownElements, oxidationStates,
                     findValidAssignment(unknownElements, composition, remainingCharge))

\* the sum of oxidationStates[element] * count over the assigned elements;
\* the rules assign whole numbers only
RECURSIVE knownCharge(_, _)
knownCharge(composition, oxidationStates) ==
    IF composition = <<>> THEN 0
    ELSE (IF Head(composition).el \in DOMAIN oxidationStates
          THEN oxidationStates[Head(composition).el].num * Head(composition).cnt
          ELSE 0)
         + knownCharge(Tail(composition), oxidationStates)

solveFrom(composition, oxidationStates, unknownElements, remainingCharge) ==
    IF Len(unknownElements) = 1
    THEN [e \in DOMAIN oxidationStates \cup {unknownElements[1]} |->
            IF e = unknownElements[1]
            THEN Fraction(remainingCharge, Count(composition, unknownElements[1]))
            ELSE oxidationStates[e]]
    ELSE IF Len(unknownElements) > 1
    THEN assignCommonOxidationStates(unknownElements, composition, remainingCharge,
                                     oxidationStates)
    ELSE oxidationStates

solveConstraints(composition, charge, oxidationStates) ==
    solveFrom(composition, oxidationStates,
              [i \in 1..Len(SelectSeq(composition,
                                      LAMBDA c : c.el \notin DOMAIN oxidationStates)) |->
                  SelectSeq(composition,
                            LAMBDA c : c.el \notin DOMAIN oxidationStates)[i].el],
              charge - knownCharge(composition, oxidationStates))

computeOxidationStates(composition, charge) ==
    IF Len(composition) = 1
    THEN [e \in {composition[1].el} |-> Fraction(charge, composition[1].cnt)]
    ELSE solveConstraints(composition, charge,
                          applyRules(rules, composition, charge, [e \in {} |-> Int2Frac(0)]))

\* species.map(s => this.computeOxidationStates(s.composition, s.charge || 0))
statesOf(species) ==
    [i \in 1..Len(species) |->
        computeOxidationStates(species[i].composition, species[i].charge)]

\* the defined values of os[element] over a list of oxidation states
valuesOf(states, element) ==
    {states[i][element] : i \in {j \in 1..Len(states) : element \in DOMAIN states[j]}}

\* Math.min(...values, Infinity) and Math.max(...values, -Infinity) when
\* there is a value
leastOf(values) == CHOOSE v \in values : \A w \in values : ~GreaterNumber(v, w)
greatestOf(values) == CHOOSE v \in values : \A w \in values : ~GreaterNumber(w, v)

\* minReactant !== minProduct || maxReactant !== maxProduct; a side without
\* the element has the range [Infinity, -Infinity]
rangeChanged(reactantValues, productValues) ==
    IF reactantValues = {} \/ productValues = {}
    THEN reactantValues # productValues
    ELSE \/ leastOf(reactantValues) # leastOf(productValues)
         \/ greatestOf(reactantValues) # greatestOf(productValues)

\* minProduct > maxReactant
oxidizedRange(reactantValues, productValues) ==
    \/ reactantValues = {}
    \/ productValues = {}
    \/ GreaterNumber(leastOf(productValues), greatestOf(reactantValues))

\* maxProduct < minReactant
reducedRange(reactantValues, productValues) ==
    \/ reactantValues = {}
    \/ productValues = {}
    \/ GreaterNumber(leastOf(reactantValues), greatestOf(productValues))

allElementsOf(species) ==
    UNION {{species[i].composition[k].el : k \in 1..Len(species[i].composition)} :
           i \in 1..Len(species)}

osChangesOf(reactantOS, productOS, allElements) ==
    [element \in {e \in allElements :
                    rangeChanged(valuesOf(reactantOS, e), valuesOf(productOS, e))} |->
        [oxidized |-> oxidizedRange(valuesOf(reactantOS, element),
                                    valuesOf(productOS, element)),
         reduced |-> reducedRange(valuesOf(reactantOS, element),
                                  valuesOf(productOS, element))]]

\* targetOS[index] is undefined for a species past the end of targetOS, and
\* reading a property of it throws as soon as the species has an element
changedOSThrows(species, targetOS) ==
    \E index \in 1..Len(species) :
        index > Len(targetOS) /\ species[index].composition # <<>>

\* the callback of some(): the element is in both and the change has the sign
hasChange(compound, currentOS, targetOSForSpecies, lookForOxidation) ==
    \E k \in 1..Len(compound.composition) :
        LET element == compound.composition[k].el
        IN  /\ element \in DOMAIN currentOS
            /\ element \in DOMAIN targetOSForSpecies
            /\ IF lookForOxidation
               THEN GreaterNumber(targetOSForSpecies[element], currentOS[element])
               ELSE GreaterNumber(currentOS[element], targetOSForSpecies[element])

\* the indexes pushed, counted from 1; called when nothing throws
findSpeciesWithChangedOS(species, targetOS, lookForOxidation) ==
    SelectSeq([i \in 1..Len(species) |-> i],
              LAMBDA index :
                  /\ species[index].composition # <<>>
                  /\ hasChange(species[index],
                               computeOxidationStates(species[index].composition,
                                                      species[index].charge),
                               targetOS[index], lookForOxidation))

\* the value of analyzeRedoxReaction, or threw when a TypeError leaves it;
\* electronTransfer and the ranges kept in osChanges are not carried
analysisFrom(reactants, products, reactantOS, productOS) ==
    IF changedOSThrows(reactants, productOS)
    THEN [threw |-> TRUE]
    ELSE [threw |-> FALSE,
          isRedox |-> DOMAIN osChangesOf(reactantOS, productOS,
                                         allElementsOf(reactants \o products)) # {},
          osChanges |-> osChangesOf(reactantOS, productOS,
                                    allElementsOf(reactants \o products)),
          oxidizedSpecies |-> findSpeciesWithChangedOS(reactants, productOS, TRUE),
          reducedSpecies |-> findSpeciesWithChangedOS(reactants, productOS, FALSE),
          reactantOS |-> reactantOS,
          productOS |-> productOS]

analyzeRedoxReaction(reactants, products) ==
    analysisFrom(reactants, products, statesOf(reactants), statesOf(products))

\* the redoxAnalysis of balanceChemicalEquation: the guarded analysis
hasComplex(species) ==
    \E i \in 1..Len(species) :
        \/ Contains(IF species[i].originalFormula # <<>> THEN species[i].originalFormula
                    ELSE species[i].formula, {"["})
        \/ Contains(species[i].formula, {"["})

noAnalysis(skipped) ==
    [isRedox |-> FALSE, skipped |-> skipped, osChanges |-> [e \in {} |-> FALSE],
     oxidizedSpecies |-> <<>>, reducedSpecies |-> <<>>,
     reactantOS |-> <<>>, productOS |-> <<>>]

analysisGuarded(value) ==
    IF value.threw THEN noAnalysis(TRUE)
    ELSE [isRedox |-> value.isRedox, skipped |-> FALSE, osChanges |-> value.osChanges,
          oxidizedSpecies |-> value.oxidizedSpecies,
          reducedSpecies |-> value.reducedSpecies,
          reactantOS |-> value.reactantOS, productOS |-> value.productOS]

redoxAnalysisOf(reactants, products) ==
    IF hasComplex(reactants \o products) THEN noAnalysis(FALSE)
    ELSE analysisGuarded(analyzeRedoxReaction(reactants, products))

(***************************************************************************)
(* src/chem: LinearAlgebra, FractionUtils and ChemicalBalancer.  Their     *)
(* Fraction class reduces and keeps the sign in the numerator as the one   *)
(* above, so the same records stand for its values.                        *)
(***************************************************************************)
\* the first row from row on whose entry in column col is not zero, 0 for -1
firstNonZeroRow(A, col, row) ==
    IF \E r \in row..Len(A) : ~isZero(A[r][col])
    THEN CHOOSE r \in row..Len(A) :
            ~isZero(A[r][col]) /\ \A q \in row..(r - 1) : isZero(A[q][col])
    ELSE 0

\* LinearAlgebra.rref: the loop over the columns, with 1-based columns; rank
\* rows are reduced so far
RECURSIVE rrefLoop(_, _, _, _)
rrefLoop(A, col, rank, pivotCols) ==
    IF col > Len(A[1]) \/ rank >= Len(A)
    THEN [rref |-> A, rank |-> rank, pivotCols |-> pivotCols]
    ELSE IF firstNonZeroRow(A, col, rank + 1) = 0
    THEN rrefLoop(A, col + 1, rank, pivotCols)
    ELSE rrefLoop(eliminateSwapped(swapRows(A, rank + 1, firstNonZeroRow(A, col, rank + 1)),
                                   col, rank + 1),
                  col + 1, rank + 1, Append(pivotCols, col))

\* the pivots LinearAlgebra.rref's loop chooses, recorded as pivotsChosen does
RECURSIVE rrefPivots(_, _, _, _)
rrefPivots(A, col, rank, chosen) ==
    IF col > Len(A[1]) \/ rank >= Len(A) THEN chosen
    ELSE IF firstNonZeroRow(A, col, rank + 1) = 0
    THEN rrefPivots(A, col + 1, rank, chosen)
    ELSE rrefPivots(eliminateSwapped(swapRows(A, rank + 1, firstNonZeroRow(A, col, rank + 1)),
                                     col, rank + 1),
                    col + 1, rank + 1,
                    Append(chosen, [column |-> [r \in 1..Len(A) |-> A[r][col]],
                                    from |-> rank + 1,
                                    row |-> firstNonZeroRow(A, col, rank + 1)]))

rref(matrix) ==
    IF matrix = <<>> THEN [rref |-> <<>>, rank |-> 0, pivotCols |-> <<>>]
    ELSE rrefLoop(matrix, 1, 0, <<>>)

nullspaceFromFree(reduced, freeVars, cols) ==
    [f \in 1..Len(freeVars) |->
        backSubstitute(reduced.rref, reduced.pivotCols, Len(reduced.pivotCols),
                       unitVector(freeVars[f], cols))]

nullspaceFromRref(reduced, cols) ==
    nullspaceFromFree(reduced, freeVarsOf(reduced.pivotCols, cols), cols)

\* LinearAlgebra.nullspace: the list of basis vectors, empty when no column is free
LinearAlgebraNullspace(matrix) ==
    IF matrix = <<>> THEN <<>> ELSE nullspaceFromRref(rref(matrix), Len(matrix[1]))

\* FractionUtils.gcdArray and lcmArray, from the second number on
RECURSIVE gcdArray(_, _)
gcdArray(numbers, result) ==
    IF numbers = <<>> \/ result = 1 THEN result
    ELSE gcdArray(Tail(numbers), gcd(result, Abs(Head(numbers))))

RECURSIVE lcmArray(_, _)
lcmArray(numbers, result) ==
    IF numbers = <<>> THEN result
    ELSE lcmArray(Tail(numbers),
                  Abs(result * Abs(Head(numbers))) \div gcd(result, Abs(Head(numbers))))

scaleByLcm(fractions, lcm) ==
    [i \in 1..Len(fractions) |-> fractions[i].num * (lcm \div fractions[i].den)]

\* integers.map(n => n / gcd); the gcd is 0 for a vector of zeros only, which
\* no nullspace vector is
divideAll(integers, g) ==
    [i \in 1..Len(integers) |-> IF g = 0 THEN integers[i] ELSE integers[i] \div g]

integersOver(integers) ==
    divideAll(integers, gcdArray(Tail(integers), Abs(Head(integers))))

\* FractionUtils.toIntegers
toIntegers(fractions) ==
    IF fractions = <<>> THEN <<>>
    ELSE integersOver(scaleByLcm(fractions,
            lcmArray(Tail([i \in 1..Len(fractions) |-> fractions[i].den]),
                     Abs(fractions[1].den))))

\* Array.from(elementSet): the elements of the species; the order of the rows
\* does not change a nullspace
getAllElements(parsed) ==
    collectElements(allEntries([i \in 1..Len(parsed) |-> [composition |-> parsed[i].elements]]),
                    <<>>)

\* ChemicalBalancer.buildMatrix in 'standard' mode
buildMatrixRows(parsed, numReactants, elements, hasCharge) ==
    [i \in 1..(Len(elements) + (IF hasCharge THEN 1 ELSE 0)) |->
        [j \in 1..Len(parsed) |->
            Int2Frac((IF j <= numReactants THEN -1 ELSE 1)
                     * (IF i <= Len(elements) THEN Count(parsed[j].elements, elements[i])
                        ELSE parsed[j].charge))]]

buildMatrix(parsed, numReactants) ==
    buildMatrixRows(parsed, numReactants, getAllElements(parsed),
                    \E j \in 1..Len(parsed) : parsed[j].charge # 0)

\* the vector, its negation, and one more copy for each entry that is not zero
generateCandidates(basisVector) ==
    <<basisVector, negate(basisVector)>>
    \o [k \in 1..Len(SelectSeq(basisVector, LAMBDA x : ~isZero(x))) |->
          IF SelectSeq(basisVector, LAMBDA x : ~isZero(x))[k].num < 0
          THEN negate(basisVector) ELSE basisVector]

hasPositiveProduct(vector, productStart) ==
    \E j \in (productStart + 1)..Len(vector) : vector[j].num > 0

\* maxCoeff * 1000 + sumCoeffs, over the absolute values
absScore(integers) ==
    MaxOf([i \in 1..Len(integers) |-> Abs(integers[i])]) * 1000
    + SumOf([i \in 1..Len(integers) |-> Abs(integers[i])])

\* the loops of findBestNullVector over the candidates of every basis vector;
\* best is a list, empty while bestVector is null
RECURSIVE allCandidates(_)
allCandidates(nullBasis) ==
    IF nullBasis = <<>> THEN <<>>
    ELSE generateCandidates(Head(nullBasis)) \o allCandidates(Tail(nullBasis))

RECURSIVE bestVectorOf(_, _, _)
bestVectorOf(candidates, productStart, best) ==
    IF candidates = <<>> THEN best
    ELSE bestVectorOf(Tail(candidates), productStart,
            IF /\ hasPositiveProduct(Head(candidates), productStart)
               /\ (best = <<>> \/ absScore(toIntegers(Head(candidates)))
                                    < absScore(toIntegers(best[1])))
            THEN <<Head(candidates)>> ELSE best)

\* threw names the code of the BalanceError thrown, "" when none is
findBestFrom(best) ==
    IF best = <<>> THEN [threw |-> "NO_VALID_SOLUTION", vector |-> <<>>]
    ELSE [threw |-> "", vector |-> best[1]]

findBestNullVector(nullBasis, productStart) ==
    IF nullBasis = <<>> THEN [threw |-> "NO_SOLUTION", vector |-> <<>>]
    ELSE findBestFrom(bestVectorOf(allCandidates(nullBasis), productStart, <<>>))

\* the reactants and then the products whose coefficient is not zero, each
\* with Math.abs of its coefficient; no species is added in 'standard' mode
buildCoefficientsResult(intCoeffs, numReactants) ==
    SelectSeq([i \in 1..Len(intCoeffs) |->
                  [side |-> IF i <= numReactants THEN "reactant" ELSE "product",
                   species |-> i,
                   coeff |-> Abs(intCoeffs[i])]],
              LAMBDA item : intCoeffs[item.species] # 0)

solveFromVector(found, numReactants) ==
    IF found.threw # ""
    THEN [threw |-> found.threw, nullVector |-> <<>>, integerCoefficients |-> <<>>,
          coefficients |-> <<>>]
    ELSE [threw |-> "", nullVector |-> found.vector,
          integerCoefficients |-> toIntegers(found.vector),
          coefficients |->
              SelectSeq(buildCoefficientsResult(toIntegers(found.vector), numReactants),
                        LAMBDA item : item.coeff # 0)]

\* ChemicalBalancer.solve in 'standard' mode
solve(parsed, numReactants) ==
    solveFromVector(findBestNullVector(LinearAlgebraNullspace(buildMatrix(parsed, numReactants)),
                                       numReactants),
                    numReactants)

(***************************************************************************)
(* src/chem/lexer.js: ChemicalLexer.  A position of the model is the       *)
(* position of the source plus one; a token carries the source's position. *)
(* A read* function gives the token it returns, or found = FALSE for null, *)
(* and the position it leaves the lexer at: readCharge and readPhase do    *)
(* not go back to where they started when they return null.                *)
(***************************************************************************)
Token(type, value, position) == [type |-> type, value |-> value, position |-> position]

\* String.prototype.toLowerCase on the letters A-Z
lowerCaseOf(c) ==
    CASE c = "A" -> "a" [] c = "B" -> "b" [] c = "C" -> "c" [] c = "D" -> "d"
      [] c = "E" -> "e" [] c = "F" -> "f" [] c = "G" -> "g" [] c = "H" -> "h"
      [] c = "I" -> "i" [] c = "J" -> "j" [] c = "K" -> "k" [] c = "L" -> "l"
      [] c = "M" -> "m" [] c = "N" -> "n" [] c = "O" -> "o" [] c = "P" -> "p"
      [] c = "Q" -> "q" [] c = "R" -> "r" [] c = "S" -> "s" [] c = "T" -> "t"
      [] c = "U" -> "u" [] c = "V" -> "v" [] c = "W" -> "w" [] c = "X" -> "x"
      [] c = "Y" -> "y" [] c = "Z" -> "z" [] OTHER -> c
toLowerCase(s) == [i \in 1..Len(s) |-> lowerCaseOf(s[i])]

readNumber(formula, i) ==
    [found |-> TRUE,
     token |-> Token("NUMBER",
                     parseInt(SubSeq(formula, i, SkipWhile(formula, i, Digit) - 1)), i - 1),
     next |-> SkipWhile(formula, i, Digit)]

\* ['Uut', 'Uuq', 'Uup', 'Uuh', 'Uus', 'Uuo']
extendedSymbols ==
    {<<"U", "u", "t">>, <<"U", "u", "q">>, <<"U", "u", "p">>, <<"U", "u", "h">>,
     <<"U", "u", "s">>, <<"U", "u", "o">>}

\* the position after the element symbol that starts at i with an uppercase
\* letter
elementEnd(formula, i) ==
    IF i + 1 <= Len(formula) /\ formula[i + 1] \in Lower
    THEN IF /\ i + 2 <= Len(formula) /\ formula[i + 2] \in Lower
            /\ SubSeq(formula, i, i + 2) \in extendedSymbols
         THEN i + 3 ELSE i + 2
    ELSE i + 1

readElement(formula, i) ==
    [found |-> TRUE,
     token |-> Token("ELEMENT", SubSeq(formula, i, elementEnd(formula, i) - 1), i - 1),
     next |-> elementEnd(formula, i)]

\* readCharge from position start; a is the position after the optional
\* caret and b the position after the digits read before the sign
chargeFrom(formula, start, a, b) ==
    IF b <= Len(formula) /\ formula[b] \in Sign
    THEN LET c == IF b = a THEN SkipWhile(formula, b + 1, Digit) ELSE b + 1
             charge == IF b > a THEN SubSeq(formula, a, b - 1)
                       ELSE SubSeq(formula, b + 1, c - 1)
             number == IF charge = <<>> THEN 1 ELSE parseInt(charge)
         IN  [found |-> TRUE,
              token |-> Token("CHARGE", IF formula[b] = "+" THEN number ELSE -number,
                              start - 1),
              next |-> c]
    ELSE [found |-> FALSE, token |-> <<>>, next |-> b]

chargeAfterCaret(formula, start, a) ==
    chargeFrom(formula, start, a, SkipWhile(formula, a, Digit))

readCharge(formula, i) ==
    chargeAfterCaret(formula, i, IF formula[i] = "^" THEN i + 1 ELSE i)

\* the position of the first ')' from i on, Len(formula) + 1 if there is none
RECURSIVE closingFrom(_, _)
closingFrom(formula, i) ==
    IF i > Len(formula) \/ formula[i] = ")" THEN i ELSE closingFrom(formula, i + 1)

\* ['s', 'l', 'g', 'aq']
phaseLabels == {<<"s">>, <<"l">>, <<"g">>, <<"a", "q">>}

\* readPhase at a '(' at position i whose content ends before position close
phaseUpTo(formula, i, close) ==
    IF close > Len(formula) THEN [found |-> FALSE, token |-> <<>>, next |-> close]
    ELSE IF toLowerCase(SubSeq(formula, i + 1, close - 1)) \in phaseLabels
    THEN [found |-> TRUE,
          token |-> Token("PHASE", toLowerCase(SubSeq(formula, i + 1, close - 1)), i - 1),
          next |-> close + 1]
    ELSE [found |-> FALSE, token |-> <<>>, next |-> close + 1]

readPhase(formula, i) ==
    IF i + 1 > Len(formula) THEN [found |-> FALSE, token |-> <<>>, next |-> i]
    ELSE phaseUpTo(formula, i, closingFrom(formula, i + 1))

\* the one-character tokens; the second alternative of the test for a dot
\* is a string of two characters and equals no character
delimiterType(char) ==
    CASE char = ")" -> "RPAREN" [] char = "[" -> "LBRACKET"
      [] char = "]" -> "RBRACKET" [] char = "." -> "DOT"

\* nextToken with the lexer at position i: the token and the position after
RECURSIVE nextToken(_, _)
\* the branch for '+', '-' and '^': a null from readCharge falls through to
\* the skip of one character, from where readCharge stopped
tokenAfterCharge(formula, charge) ==
    IF charge.found THEN charge ELSE nextToken(formula, charge.next + 1)

\* the branch for '(': a null from readPhase gives LPAREN, and one more
\* character is passed from where readPhase stopped
tokenAfterPhase(formula, start, phase) ==
    IF phase.found THEN phase
    ELSE [found |-> TRUE, token |-> Token("LPAREN", <<"(">>, start - 1),
          next |-> phase.next + 1]

tokenAt(formula, p) ==
    IF p > Len(formula)
    THEN [found |-> TRUE, token |-> Token("EOF", <<>>, p - 1), next |-> p]
    ELSE IF formula[p] \in Digit THEN readNumber(formula, p)
    ELSE IF formula[p] \in Upper THEN readElement(formula, p)
    ELSE IF formula[p] \in Sign \cup {"^"}
    THEN tokenAfterCharge(formula, readCharge(formula, p))
    ELSE IF formula[p] = "(" THEN tokenAfterPhase(formula, p, readPhase(formula, p))
    ELSE IF formula[p] \in {")", "[", "]", "."}
    THEN [found |-> TRUE, token |-> Token(delimiterType(formula[p]), <<formula[p]>>, p - 1),
          next |-> p + 1]
    ELSE nextToken(formula, p + 1)

nextToken(formula, i) == tokenAt(formula, SkipWhile(formula, i, WS))

\* the loop of tokenize, from position i
RECURSIVE tokensFrom(_, _)
tokensAfter(formula, t) ==
    IF t.token.type = "EOF" THEN <<t.token>>
    ELSE <<t.token>> \o tokensFrom(formula, t.next)

tokensFrom(formula, i) == tokensAfter(formula, nextToken(formula, i))

\* ChemicalLexer.tokenize(formula); the constructor trims the formula
tokenize(formula) == tokensFrom(Trim(formula), 1)

(***************************************************************************)
(* src/unnamed/part_002: ChemicalParser.  pos is the index of the current  *)
(* token (the source's position plus one); the list of tokens ends with    *)
(* EOF, which no function passes.  A function that can throw gives a       *)
(* record with threw = TRUE and the position of the ParseError, or with    *)
(* threw = FALSE, its value and the index of the token it stopped at.      *)
(***************************************************************************)
ParseError(position) == [threw |-> TRUE, position |-> position]

\* parseNumber of the parser: the value of a NUMBER token, or 1
parserNumber(tokens, pos) ==
    IF tokens[pos].type = "NUMBER"
    THEN [value |-> tokens[pos].value, pos |-> pos + 1]
    ELSE [value |-> 1, pos |-> pos]

\* parseIsotope at an LBRACKET token: consume NUMBER, ELEMENT and RBRACKET
parseIsotope(tokens, pos) ==
    IF tokens[pos + 1].type # "NUMBER" THEN ParseError(tokens[pos + 1].position)
    ELSE IF tokens[pos + 2].type # "ELEMENT" THEN ParseError(tokens[pos + 2].position)
    ELSE IF tokens[pos + 3].type # "RBRACKET" THEN ParseError(tokens[pos + 3].position)
    ELSE [threw |-> FALSE, mass |-> tokens[pos + 1].value,
          element |-> tokens[pos + 2].value, pos |-> pos + 4]

\* composition[elementKey] = count
atomCounted(elementKey, count) ==
    [threw |-> FALSE, composition |-> <<[el |-> elementKey, cnt |-> count.value]>>,
     pos |-> count.pos]

\* `${isotope.element}-${isotope.mass}`
atomOfIsotope(tokens, isotope) ==
    IF isotope.threw THEN isotope
    ELSE atomCounted(isotope.element \o <<"-">> \o NatToChars(isotope.mass),
                     parserNumber(tokens, isotope.pos))

parseAtom(tokens, pos) ==
    IF tokens[pos].type = "LBRACKET" THEN atomOfIsotope(tokens, parseIsotope(tokens, pos))
    ELSE IF tokens[pos].type = "ELEMENT"
    THEN atomCounted(tokens[pos].value, parserNumber(tokens, pos + 1))
    ELSE ParseError(tokens[pos].position)

\* result[element] = count * multiplier
multiplied(elements, multiplier) ==
    [i \in 1..Len(elements) |-> [el |-> elements[i].el, cnt |-> elements[i].cnt * multiplier]]

groupMultiplied(groupComposition, multiplier) ==
    [threw |-> FALSE,
     elements |-> multiplied(groupComposition.elements, multiplier.value),
     charge |-> groupComposition.charge * multiplier.value,
     pos |-> multiplier.pos]

\* the rest of parseGroup once its parseFormula has returned
groupClosed(tokens, groupComposition) ==
    IF groupComposition.threw THEN groupComposition
    ELSE IF tokens[groupComposition.pos].type # "RPAREN"
    THEN ParseError(tokens[groupComposition.pos].position)
    ELSE groupMultiplied(groupComposition, parserNumber(tokens, groupComposition.pos + 1))

\* the loop of parseFormula with the current token at pos
RECURSIVE formulaLoop(_, _, _, _)
\* the merge of a partial composition into elements and charge
formulaMerged(tokens, elements, charge, partial, partialElements, partialCharge) ==
    IF partial.threw THEN partial
    ELSE formulaLoop(tokens, partial.pos, AddAll(elements, partialElements, 1),
                     charge + partialCharge)

formulaOfGroup(tokens, elements, charge, group) ==
    formulaMerged(tokens, elements, charge, group,
                  IF group.threw THEN <<>> ELSE group.elements,
                  IF group.threw THEN 0 ELSE group.charge)

formulaOfAtom(tokens, elements, charge, atom) ==
    formulaMerged(tokens, elements, charge, atom,
                  IF atom.threw THEN <<>> ELSE atom.composition, 0)

\* parseGroup at an LPAREN token
parserGroup(tokens, pos) == groupClosed(tokens, formulaLoop(tokens, pos + 1, <<>>, 0))

formulaLoop(tokens, pos, elements, charge) ==
    IF tokens[pos].type \in {"EOF", "RPAREN", "PHASE"}
    THEN [threw |-> FALSE, elements |-> elements, charge |-> charge, pos |-> pos]
    ELSE IF tokens[pos].type = "LPAREN"
    THEN formulaOfGroup(tokens, elements, charge, parserGroup(tokens, pos))
    ELSE IF tokens[pos].type \in {"ELEMENT", "LBRACKET"}
    THEN formulaOfAtom(tokens, elements, charge, parseAtom(tokens, pos))
    ELSE IF tokens[pos].type = "CHARGE"
    THEN formulaLoop(tokens, pos + 1, elements, charge + tokens[pos].value)
    ELSE ParseError(tokens[pos].position)

\* ChemicalParser.parseFormula of the parser
parserFormula(tokens, pos) == formulaLoop(tokens, pos, <<>>, 0)

\* the charge at the end of the formula
chargeAtEnd(tokens, composition) ==
    IF tokens[composition.pos].type = "CHARGE"
    THEN [composition EXCEPT !.charge = @ + tokens[composition.pos].value,
                             !.pos = @ + 1]
    ELSE composition

\* parseHydrate: the water count, H, 2, O and no other count, each read in
\* turn; h and o are what parseNumber gives after H and after O
hydrateAdded(baseComposition, waterCount, pos) ==
    [baseComposition EXCEPT
        !.elements = AddCount(AddCount(@, <<"H">>, 2 * waterCount), <<"O">>, waterCount),
        !.pos = pos]

hydrateAfterO(tokens, baseComposition, waterCount, o) ==
    IF o.value # 1 THEN ParseError(tokens[o.pos].position)
    ELSE hydrateAdded(baseComposition, waterCount, o.pos)

hydrateAfterH(tokens, baseComposition, waterCount, h) ==
    IF h.value # 2 THEN ParseError(tokens[h.pos].position)
    ELSE IF tokens[h.pos].type # "ELEMENT" \/ tokens[h.pos].value # <<"O">>
    THEN ParseError(tokens[h.pos].position)
    ELSE hydrateAfterO(tokens, baseComposition, waterCount, parserNumber(tokens, h.pos + 1))

hydrateAfterCount(tokens, baseComposition, waterCount) ==
    IF tokens[waterCount.pos].type # "ELEMENT" \/ tokens[waterCount.pos].value # <<"H">>
    THEN ParseError(tokens[waterCount.pos].position)
    ELSE hydrateAfterH(tokens, baseComposition, waterCount.value,
                       parserNumber(tokens, waterCount.pos + 1))

parseHydrate(tokens, baseComposition) ==
    IF tokens[baseComposition.pos].type # "DOT" THEN baseComposition
    ELSE hydrateAfterCount(tokens, baseComposition,
                           parserNumber(tokens, baseComposition.pos + 1))

\* the phase, then parse()'s test that the token left is EOF
speciesWithPhase(tokens, composition, phase, pos) ==
    IF tokens[pos].type # "EOF" THEN ParseError(tokens[pos].position)
    ELSE [threw |-> FALSE, elements |-> composition.elements,
          charge |-> composition.charge, phase |-> phase]

speciesAfterHydrate(tokens, composition) ==
    IF composition.threw THEN composition
    ELSE IF tokens[composition.pos].type = "PHASE"
    THEN speciesWithPhase(tokens, composition, tokens[composition.pos].value,
                          composition.pos + 1)
    ELSE speciesWithPhase(tokens, composition, <<>>, composition.pos)

speciesAfterFormula(tokens, composition) ==
    IF composition.threw THEN composition
    ELSE speciesAfterHydrate(tokens, parseHydrate(tokens, chargeAtEnd(tokens, composition)))

\* ChemicalParser.parse(): parseSpecies, then nothing but EOF may be left
parserParse(tokens) == speciesAfterFormula(tokens, parserFormula(tokens, 1))

\* parseFormula(formula): a ParseError is thrown again with its position
parseFormula(formula) == parserParse(tokenize(formula))

(***************************************************************************)
(* The equations balanced: every equation with at most MaxSide species of  *)
(* Pool on each side, and the named equations of Named.                    *)
(***************************************************************************)
H2 == <<"H", "2">>
Cl2 == <<"C", "l", "2">>
HCl == <<"H", "C", "l">>
HPlus == <<"H", "^", "+">>
ClMinus == <<"C", "l", "^", "-">>
Pool == <<H2, Cl2, HCl, HPlus, ClMinus>>

\* a side is up to MaxSide species of Pool, repeats allowed, in Pool's order
MaxSide == 2
Sides ==
    UNION {{[i \in 1..n |-> Pool[idx[i]]] :
                idx \in {f \in [1..n -> 1..Len(Pool)] :
                            \A i \in 1..(n - 1) : f[i] <= f[i + 1]}} :
           n \in 1..MaxSide}
RECURSIVE JoinPlus(_)
JoinPlus(side) ==
    IF Len(side) = 1 THEN side[1]
    ELSE side[1] \o <<" ", "+", " ">> \o JoinPlus(Tail(side))
Family == {JoinPlus(l) \o <<" ", "-", ">", " ">> \o JoinPlus(r) : l \in Sides, r \in Sides}

Permanganate ==
    <<"M", "n", "O", "4", "^", "-", " ", "+", " ", "F", "e", "^", "2", "+", " ", "+", " ", "H",
      "^", "+", " ", "-", ">", " ", "M", "n", "^", "2", "+", " ", "+", " ", "F", "e", "^", "3",
      "+", " ", "+", " ", "H", "2", "O">>
Dichromate ==
    <<"C", "r", "2", "O", "7", "^", "2", "-", " ", "+", " ", "F", "e", "^", "2", "+", " ", "+",
      " ", "H", "^", "+", " ", "-", ">", " ", "C", "r", "^", "3", "+", " ", "+", " ", "F", "e",
      "^", "3", "+", " ", "+", " ", "H", "2", "O">>
Hypochlorite ==
    <<"C", "l", "O", "^", "-", " ", "+", " ", "F", "e", "^", "2", "+", " ", "-", ">", " ", "C",
      "l", "^", "-", " ", "+", " ", "F", "e", "^", "3", "+">>
SodiumChloride ==
    <<"N", "a", "^", "+", " ", "+", " ", "C", "l", "^", "-", " ", "-", ">", " ", "N", "a", "C",
      "l">>
Water == <<"H", "2", " ", "+", " ", "O", "2", " ", "-", ">", " ", "H", "2", "O">>
WaterArrow == <<"H", "2", " ", "+", " ", "O", "2", " ", "U+2192", " ", "H", "2", "O">>
WaterTight == <<"2", "H", "2", "+", "O", "2", "=", "2", "H", "2", "O">>
Rust == <<"F", "e", " ", "+", " ", "O", "2", " ", "-", ">", " ", "F", "e", "2", "O", "3">>
Combustion ==
    <<"H", "2", " ", "+", " ", "O", "2", " ", "+", " ", "C", " ", "-", ">", " ", "H", "2", "O",
      " ", "+", " ", "C", "O", "2">>
SpectatorIon ==
    <<"N", "a", "^", "+", " ", "+", " ", "H", "2", " ", "+", " ", "O", "2", " ", "-", ">", " ",
      "N", "a", "^", "+", " ", "+", " ", "H", "2", "O">>
DigitsSign ==
    <<"F", "e", "3", "+", " ", "+", " ", "C", "l", "-", " ", "-", ">", " ", "F", "e", "C", "l",
      "3">>
CaretDigitsSign ==
    <<"F", "e", "^", "3", "+", " ", "+", " ", "C", "l", "^", "-", " ", "-", ">", " ", "F", "e",
      "C", "l", "3">>
SignDigits ==
    <<"F", "e", "+", "3", " ", "+", " ", "C", "l", "-", " ", "-", ">", " ", "F", "e", "C", "l",
      "3">>
CaretSignDigits ==
    <<"F", "e", "^", "+", "3", " ", "+", " ", "C", "l", "^", "-", " ", "-", ">", " ", "F", "e",
      "C", "l", "3">>
Sulfate ==
    <<"B", "a", "+", "+", " ", "+", " ", "S", "O", "4", "^", "2", "-", " ", "-", ">", " ", "B",
      "a", "S", "O", "4">>
DoubledSigns ==
    <<"B", "a", "+", "+", " ", "+", " ", "S", "-", "-", " ", "-", ">", " ", "B", "a", "S">>
NoArrow == <<"H", "2", " ", "+", " ", "O", "2">>
NoProducts == <<"H", "2", " ", "+", " ", "O", "2", " ", "-", ">">>
NoReaction ==
    <<"C", "u", " ", "+", " ", "H", "C", "l", " ", "-", ">", " ", "N", "o", " ", " ", "R", "e",
      "a", "c", "t", "i", "o", "n">>
BareNumber == <<"H", "2", " ", "+", " ", "2", " ", "-", ">", " ", "H", "2", "O">>
Hydrate ==
    <<"C", "u", "S", "O", "4", ".", "5", "H", "2", "O", "(", "s", ")", " ", "-", ">", " ", "C",
      "u", "S", "O", "4", "(", "s", ")", " ", "+", " ", "H", "2", "O", "(", "g", ")">>
\* Cu + 2 Ag^+ -> Cu^2+ + 2 Ag, a net charge of +2 on each side
Displacement ==
    <<"C", "u", " ", "+", " ", "A", "g", "^", "+", " ", "-", ">", " ", "C", "u", "+", "+",
      " ", "+", " ", "A", "g">>
\* a nullspace of two vectors, one with negative entries
Peroxide ==
    <<"H", "2", " ", "+", " ", "O", "2", " ", "+", " ", "H", "2", "O", "2", " ", "-", ">",
      " ", "H", "2", "O">>
\* the permanganate equation with each charge written sign then digits
PermanganateSignDigits ==
    <<"M", "n", "O", "4", "^", "-", "1", " ", "+", " ", "F", "e", "^", "+", "2", " ", "+",
      " ", "H", "^", "+", "1", " ", "-", ">", " ", "M", "n", "^", "+", "2", " ", "+", " ",
      "F", "e", "^", "+", "3", " ", "+", " ", "H", "2", "O">>
\* two separators: the second one stays inside the product side
TwoArrows ==
    <<"H", "2", " ", "+", " ", "O", "2", " ", "=", " ", "H", "2", "O", " ", "=", " ", "H",
      "2", "O">>
TwoArrowsApart ==
    <<"H", "2", " ", "-", ">", " ", "O", "2", " ", "-", ">", " ", "H", "2", "O">>
NoReactants ==
    <<"-", ">", " ", "H", "2", "O">>
\* a token without elements on both sides
EmptySpectator ==
    <<"H", "2", " ", "+", " ", "O", "2", " ", "+", " ", "a", "q", " ", "-", ">", " ", "H",
      "2", "O", " ", "+", " ", "a", "q">>
\* a half-reaction written without its electrons
PermanganateHalf ==
    <<"M", "n", "O", "4", "^", "-", " ", "+", " ", "H", "^", "+", " ", "-", ">", " ", "M",
      "n", "+", "+", " ", "+", " ", "H", "2", "O">>
Named ==
    {Permanganate, Dichromate, Hypochlorite, SodiumChloride, Water,
     WaterArrow, WaterTight, Rust, Combustion, SpectatorIon,
     DigitsSign, CaretDigitsSign, SignDigits, CaretSignDigits, Sulfate,
     DoubledSigns, NoArrow, NoProducts, NoReaction, BareNumber,
     Hydrate, Displacement, Peroxide, PermanganateSignDigits,
     TwoArrows, TwoArrowsApart, NoReactants, EmptySpectator, PermanganateHalf}
Equations == Family \cup Named
Modes == {"standard", "redox"}


(***************************************************************************)
(* balanceChemicalEquation, one action for each stage of its try block and *)
(* one for its catch block                                                 *)
(***************************************************************************)
VARIABLES
    equation,     \* the argument equation
    mode,         \* the argument mode
    pc,           \* the stage balanceChemicalEquation has reached
    parsed,       \* the value of parseChemicalEquation, as a list
    built,        \* the value of buildBalanceMatrix, as a list
    nullspace,    \* the value of computeNullspace, as a list
    reason,       \* the reason handed to attemptChargeMismatchDiagnostic
    redoxAnalysis, \* the local redoxAnalysis, as a list
    result,       \* the value returned, as a list
    escaped,      \* an exception left balanceChemicalEquation
    previous,     \* the earlier call of a caller that balances twice, as a list
    input,        \* the argument of a function called on its own, as a list
    output        \* the value of that call, as a list

vars ==
    <<equation, mode, pc, parsed, built, nullspace, reason, redoxAnalysis, result, escaped,
      previous, input, output>>

Lowered(c) ==
    CASE c = "N" -> "n" [] c = "O" -> "o" [] c = "R" -> "r" [] c = "E" -> "e"
      [] c = "A" -> "a" [] c = "C" -> "c" [] c = "T" -> "t" [] c = "I" -> "i"
      [] OTHER -> c

\* /no\s+reaction/i.test(eq)
noReaction(eq) ==
    \E i \in 1..Len(eq) :
        LET j == SkipWhile(eq, i + 2, WS)
        IN  /\ i + 1 <= Len(eq)
            /\ Lowered(eq[i]) = "n" /\ Lowered(eq[i + 1]) = "o"
            /\ j > i + 2
            /\ j + 7 <= Len(eq)
            /\ [k \in 1..8 |-> Lowered(eq[j + k - 1])]
                 = <<"r", "e", "a", "c", "t", "i", "o", "n">>

Failure(kind) ==
    [success |-> FALSE, error |-> kind, coefficients |-> <<>>, balanced |-> <<>>,
     reactants |-> <<>>, products |-> <<>>, diagnostic |-> <<>>,
     redoxAnalysis |-> <<>>, isRedox |-> <<>>]

\* a failure that carries the local redoxAnalysis
FailureAnalysed(kind, analysis) == [Failure(kind) EXCEPT !.redoxAnalysis = analysis]

\* a variant of sideString that writes the coefficient 1 as well
RECURSIVE sideStringWithOnes(_, _, _)
sideStringWithOnes(species, coefficients, offset) ==
    IF species = <<>> THEN <<>>
    ELSE IntToChars(coefficients[offset + 1])
         \o Head(species).formula
         \o (IF Head(species).phase # <<>>
             THEN <<"(">> \o Head(species).phase \o <<")">> ELSE <<>>)
         \o (IF Len(species) > 1 THEN <<" ", "+", " ">> ELSE <<>>)
         \o sideStringWithOnes(Tail(species), coefficients, offset + 1)

\* coeffStr + compound.formula + phase, joined by ' + '
RECURSIVE sideString(_, _, _)
sideString(species, coefficients, offset) ==
    IF species = <<>> THEN <<>>
    ELSE LET compound == Head(species)
             coeff == coefficients[offset + 1]
         IN  (IF coeff > 1 THEN IntToChars(coeff) ELSE <<>>)
             \o compound.formula
             \o (IF compound.phase # <<>> THEN <<"(">> \o compound.phase \o <<")">> ELSE <<>>)
             \o (IF Len(species) > 1 THEN <<" ", "+", " ">> ELSE <<>>)
             \o sideString(Tail(species), coefficients, offset + 1)

Success(reactants, products, coefficients, analysis) ==
    [success |-> TRUE, error |-> "", coefficients |-> coefficients,
     balanced |-> sideString(reactants, coefficients, 0)
                  \o <<" ", "U+2192", " ">>
                  \o sideString(products, coefficients, Len(reactants)),
     reactants |-> reactants, products |-> products, diagnostic |-> <<>>,
     redoxAnalysis |-> analysis, isRedox |-> <<analysis[1].isRedox>>]

Init ==
    /\ equation \in Equations
    /\ mode \in Modes
    /\ pc = "parse"
    /\ parsed = <<>>
    /\ built = <<>>
    /\ nullspace = <<>>
    /\ reason = ""
    /\ redoxAnalysis = <<>>
    /\ result = <<>>
    /\ escaped = FALSE
    /\ previous = <<>>
    /\ input = <<>>
    /\ output = <<>>

Return(value) ==
    /\ result' = <<value>>
    /\ pc' = "returned"

\* the 'no reaction' test and parseChemicalEquation
Parse ==
    /\ pc = "parse"
    /\ LET p == parseChemicalEquation(equation)
       IN  IF noReaction(equation)
           THEN Return(Failure("NO_REACTION")) /\ UNCHANGED parsed
           ELSE IF p = <<>>
           THEN Return(Failure("INVALID_FORMAT")) /\ UNCHANGED parsed
           ELSE parsed' = p /\ pc' = "validate" /\ UNCHANGED result
    /\ UNCHANGED <<equation, mode, built, nullspace, reason, redoxAnalysis, escaped, previous, input, output>>

Validate ==
    /\ pc = "validate"
    /\ IF validateEquationForMode(parsed[1].reactants, parsed[1].products, mode)
       THEN pc' = "build" /\ UNCHANGED result
       ELSE Return(Failure("MODE_VALIDATION"))
    /\ UNCHANGED <<equation, mode, parsed, built, nullspace, reason, redoxAnalysis,
                 escaped, previous, input, output>>

useChargeBalance == mode = "redox"

\* the guarded redox analysis and buildBalanceMatrix
Build ==
    /\ pc = "build"
    /\ redoxAnalysis' = <<redoxAnalysisOf(parsed[1].reactants, parsed[1].products)>>
    /\ LET b == buildBalanceMatrix(parsed[1].reactants, parsed[1].products, useChargeBalance)
       IN  /\ built' = <<b>>
           /\ pc' = IF b.threw THEN "catch" ELSE "nullspace"
    /\ UNCHANGED <<equation, mode, parsed, nullspace, reason, result, escaped, previous, input, output>>

Nullspace ==
    /\ pc = "nullspace"
    /\ LET n == computeNullspace(built[1].matrix)
       IN  /\ nullspace' = <<n>>
           /\ IF n.kind = "throw" THEN pc' = "catch" /\ UNCHANGED <<reason, result>>
              ELSE IF n.kind = "basis" THEN pc' = "select" /\ UNCHANGED <<reason, result>>
              ELSE IF useChargeBalance
              THEN pc' = "diagnose" /\ reason' = "NO_NULLSPACE" /\ UNCHANGED result
              ELSE Return(FailureAnalysed("NO_SOLUTION", redoxAnalysis)) /\ UNCHANGED reason
    /\ UNCHANGED <<equation, mode, parsed, built, redoxAnalysis, escaped, previous, input, output>>

Select ==
    /\ pc = "select"
    /\ LET found == findBestIntegerSolution(nullspace[1].basis, Len(parsed[1].reactants))
       IN  IF found # <<>>
           THEN Return(Success(parsed[1].reactants, parsed[1].products, found[1],
                                redoxAnalysis))
                /\ UNCHANGED reason
           ELSE IF useChargeBalance
           THEN pc' = "diagnose" /\ reason' = "NO_VALID_VECTOR" /\ UNCHANGED result
           ELSE Return(FailureAnalysed("NO_INTEGER_SOLUTION", redoxAnalysis)) /\ UNCHANGED reason
    /\ UNCHANGED <<equation, mode, parsed, built, nullspace, redoxAnalysis, escaped, previous, input, output>>

Diagnose ==
    /\ pc = "diagnose"
    /\ LET d == attemptChargeMismatchDiagnostic(parsed[1].reactants, parsed[1].products,
                                                reason)
       IN  IF d # <<>>
           THEN Return([FailureAnalysed("CHARGE_IMBALANCE", redoxAnalysis)
                           EXCEPT !.diagnostic = d])
           ELSE IF reason = "NO_NULLSPACE"
           THEN Return(FailureAnalysed("NO_SOLUTION", redoxAnalysis))
           ELSE Return(FailureAnalysed("NO_INTEGER_SOLUTION", redoxAnalysis))
    /\ UNCHANGED <<equation, mode, parsed, built, nullspace, reason, redoxAnalysis,
                 escaped, previous, input, output>>

\* a variant of catchBlock that lets the exception through
catchBlockRethrows == [value |-> Failure("BALANCING_ERROR"), rethrown |-> TRUE]

\* the catch block: parseSpeciesList is not defined, so the attempt at
\* suggestions throws inside its own try and the last return is reached
catchBlock == [value |-> Failure("BALANCING_ERROR"), rethrown |-> FALSE]

Catch ==
    /\ pc = "catch"
    /\ IF catchBlock.rethrown
       THEN escaped' = TRUE /\ pc' = "returned" /\ UNCHANGED result
       ELSE Return(catchBlock.value) /\ UNCHANGED escaped
    /\ UNCHANGED <<equation, mode, parsed, built, nullspace, reason, redoxAnalysis, previous, input, output>>

Next ==
    \/ Parse
    \/ Validate
    \/ Build
    \/ Nullspace
    \/ Select
    \/ Diagnose
    \/ Catch

Spec == Init /\ [][Next]_vars

(***************************************************************************)
(* Callers that balance a second equation made from the first one.  The    *)
(* equations are words separated by single spaces.                         *)
(***************************************************************************)
Separators == {<<"+">>, <<"-", ">">>, <<"=">>, <<"=", ">">>, <<"U+2192">>}
words(eq) == SplitChar(eq, " ", <<>>)
speciesWords(eq) == SelectSeq(words(eq), LAMBDA w : w # <<>> /\ w \notin Separators)

RECURSIVE joinWords(_)
joinWords(ws) ==
    IF ws = <<>> THEN <<>>
    ELSE IF Len(ws) = 1 THEN ws[1]
    ELSE ws[1] \o <<" ">> \o joinWords(Tail(ws))

\* each species word with its coefficient in front, the coefficient 1 left out
RECURSIVE writeCoefficients(_, _, _)
writeCoefficients(ws, coefficients, gap) ==
    IF ws = <<>> THEN <<>>
    ELSE IF ws[1] = <<>> \/ ws[1] \in Separators
    THEN <<ws[1]>> \o writeCoefficients(Tail(ws), coefficients, gap)
    ELSE <<(IF Head(coefficients) > 1 THEN IntToChars(Head(coefficients)) \o gap ELSE <<>>)
           \o ws[1]>>
         \o writeCoefficients(Tail(ws), Tail(coefficients), gap)

written(eq, coefficients, gap) == joinWords(writeCoefficients(words(eq), coefficients, gap))

Gaps == {<<>>, <<" ">>}

\* one more occurrence of a species on both sides
hasArrowWord(ws) == \E i \in 1..Len(ws) : ws[i] \in Separators \ {<<"+">>}
arrowWord(ws) ==
    CHOOSE i \in 1..Len(ws) :
        /\ ws[i] \in Separators \ {<<"+">>}
        /\ \A j \in 1..(i - 1) : ws[j] \notin Separators \ {<<"+">>}
withSpectator(eq, x) ==
    joinWords(SubSeq(words(eq), 1, arrowWord(words(eq)) - 1)
              \o <<<<"+">>, x>>
              \o SubSeq(words(eq), arrowWord(words(eq)), Len(words(eq)))
              \o <<<<"+">>, x>>)

Spectators == {HCl, ClMinus}

Again(kind, eq) ==
    /\ previous' = <<[kind |-> kind, equation |-> equation, result |-> result[1]]>>
    /\ equation' = eq
    /\ pc' = "parse"
    /\ parsed' = <<>>
    /\ built' = <<>>
    /\ nullspace' = <<>>
    /\ reason' = ""
    /\ redoxAnalysis' = <<>>
    /\ result' = <<>>
    /\ UNCHANGED <<mode, escaped, input, output>>

\* the balanced equation is balanced again, every coefficient typed
BalanceWritten ==
    /\ pc = "returned" /\ ~escaped /\ previous = <<>>
    /\ result[1].success
    /\ Len(speciesWords(equation)) = Len(result[1].coefficients)
    /\ \E gap \in Gaps : Again("written", written(equation, result[1].coefficients, gap))

\* the equation is balanced again with a species added to both sides
BalanceWithSpectator ==
    /\ pc = "returned" /\ ~escaped /\ previous = <<>>
    /\ result[1].error \notin {"NO_REACTION", "INVALID_FORMAT"}
    /\ hasArrowWord(words(equation))
    /\ \E x \in Spectators : Again("spectator", withSpectator(equation, x))

(***************************************************************************)
(* Functions called on their own, each on an argument drawn from a small   *)
(* set.                                                                    *)
(***************************************************************************)
Idle ==
    /\ equation = <<>> /\ mode = "standard"
    /\ parsed = <<>> /\ built = <<>> /\ nullspace = <<>> /\ reason = ""
    /\ redoxAnalysis = <<>> /\ result = <<>> /\ escaped = FALSE /\ previous = <<>>

\* pc names the function; the call is made once
Call(value) ==
    /\ output = <<>>
    /\ output' = <<value>>
    /\ UNCHANGED <<equation, mode, pc, parsed, built, nullspace, reason, redoxAnalysis,
                   result, escaped, previous, input>>

called(function) == pc = function /\ output # <<>>

MaxDelta == 60
InitCounterIons ==
    /\ Idle
    /\ pc = "inferCounterIons"
    /\ input \in {<<d>> : d \in (-MaxDelta)..MaxDelta}
    /\ output = <<>>

InferCounterIons ==
    /\ pc = "inferCounterIons"
    /\ Call(inferCounterIons(input[1]))

SpecCounterIons == InitCounterIons /\ [][InferCounterIons]_vars

\* matrices and vectors of small numbers
MaxEntry == 2
Entries == (-1)..MaxEntry
Shapes == {<<1, 2>>, <<1, 3>>, <<2, 2>>, <<2, 3>>, <<3, 2>>}
matrixOfNumbers(m) == [r \in DOMAIN m |-> [c \in DOMAIN m[r] |-> Int2Frac(m[r][c])]]

InitNullspace ==
    /\ Idle
    /\ pc \in {"computeNullspace", "LinearAlgebra.nullspace"}
    /\ \E sh \in Shapes : \E m \in [1..sh[1] -> [1..sh[2] -> Entries]] :
           input = <<matrixOfNumbers(m)>>
    /\ output = <<>>

ComputeNullspace ==
    /\ pc = "computeNullspace"
    /\ Call([basis |-> computeNullspace(input[1]).basis,
             pivotCols |-> rowReduce(input[1], Len(input[1][1]), 1, 1, <<>>).pivotCols,
             pivots |-> pivotsChosen(input[1], Len(input[1][1]), 1, 1, <<>>)])

LinearNullspace ==
    /\ pc = "LinearAlgebra.nullspace"
    /\ Call([basis |-> LinearAlgebraNullspace(input[1]),
             pivotCols |-> rref(input[1]).pivotCols,
             pivots |-> rrefPivots(input[1], 1, 0, <<>>)])

NextNullspace == ComputeNullspace \/ LinearNullspace
SpecNullspace == InitNullspace /\ [][NextNullspace]_vars

\* candidate vectors: halves and whole numbers
Halves == {Fraction(n, d) : n \in Entries, d \in 1..2}
Vectors == UNION {[1..n -> Halves] : n \in 2..3}

\* parsed species of 'H' and 'O', without charge
Formulas ==
    {SelectSeq(<<[el |-> <<"H">>, cnt |-> h], [el |-> <<"O">>, cnt |-> o]>>,
               LAMBDA e : e.cnt > 0) : h \in 0..MaxEntry, o \in 0..MaxEntry} \ {<<>>}
FormulaLists == UNION {[1..n -> Formulas] : n \in 1..2}
parsedOf(formulas) == [i \in 1..Len(formulas) |-> [elements |-> formulas[i], charge |-> 0]]

InitSelector ==
    /\ Idle
    /\ \/ /\ pc = "evaluateNullspaceSolution"
          /\ input \in {<<[vector |-> v, numReactants |-> n]>> :
                            v \in Vectors, n \in 1..2}
          /\ input[1].numReactants < Len(input[1].vector)
       \/ /\ pc = "ChemicalBalancer.solve"
          /\ input \in {<<[parsed |-> parsedOf(l \o r), numReactants |-> Len(l)]>> :
                            l \in FormulaLists, r \in FormulaLists}
    /\ output = <<>>

EvaluateNullspaceSolution ==
    /\ pc = "evaluateNullspaceSolution"
    /\ Call(evaluateNullspaceSolution(input[1].vector, input[1].numReactants))

Solve ==
    /\ pc = "ChemicalBalancer.solve"
    /\ Call(solve(input[1].parsed, input[1].numReactants))

NextSelector == EvaluateNullspaceSolution \/ Solve
SpecSelector == InitSelector /\ [][NextSelector]_vars

\* formulas: up to MaxPieces pieces written one after the other
MaxPieces == 3
Pieces ==
    {<<"C", "a">>, <<"C">>, <<"O">>, <<"H">>, <<"2">>, <<"(">>, <<")">>, <<"[">>, <<"]">>,
     <<"(", "s", ")">>, <<"(", "a", "q", ")">>, <<"(", "s", "s", ")">>,
     <<"[", "1", "3", "C", "]">>, <<"(", "O", "H", ")", "2">>}
RECURSIVE joined(_)
joined(pieces) == IF pieces = <<>> THEN <<>> ELSE Head(pieces) \o joined(Tail(pieces))

InitFormula ==
    /\ Idle
    /\ pc \in {"ChemicalLexer.tokenize", "parseFormula", "parseChemicalFormula"}
    /\ \E n \in 1..MaxPieces : \E pieces \in [1..n -> Pieces] : input = <<joined(pieces)>>
    /\ output = <<>>

Tokenize ==
    /\ pc = "ChemicalLexer.tokenize"
    /\ Call(tokenize(input[1]))

ParseFormula ==
    /\ pc = "parseFormula"
    /\ Call(parseFormula(input[1]))

ParseChemicalFormula ==
    /\ pc = "parseChemicalFormula"
    /\ Call(parseChemicalFormula(input[1]))

NextFormula == Tokenize \/ ParseFormula \/ ParseChemicalFormula
SpecFormula == InitFormula /\ [][NextFormula]_vars

\* species of up to MaxElements of these elements, MaxCount atoms of each at
\* most, and a charge of MaxIonCharge at most
MaxElements == 3
MaxCount == 2
MaxIonCharge == 1
SpeciesElements == {<<"H">>, <<"N", "a">>, <<"C", "a">>, <<"O">>, <<"C", "l">>, <<"C">>}

InitOxidation ==
    /\ Idle
    /\ pc = "computeOxidationStates"
    /\ \E n \in 1..MaxElements :
        \E els \in [1..n -> SpeciesElements], cnts \in [1..n -> 1..MaxCount] :
            /\ \A i, j \in 1..n : els[i] = els[j] => i = j
            /\ \E charge \in (-MaxIonCharge)..MaxIonCharge :
                input = <<[composition |-> [i \in 1..n |-> [el |-> els[i], cnt |-> cnts[i]]],
                           charge |-> charge]>>
    /\ output = <<>>

ComputeOxidationStates ==
    /\ pc = "computeOxidationStates"
    /\ Call(computeOxidationStates(input[1].composition, input[1].charge))

SpecOxidation == InitOxidation /\ [][ComputeOxidationStates]_vars

(***************************************************************************)
(* class Fraction of the fractions module: a pair n/d                      *)
(***************************************************************************)
\* static gcd(a, b): the loop, on the absolute values
RECURSIVE gcdLoop(_, _)
gcdLoop(a, b) == IF b = 0 THEN a ELSE gcdLoop(b, a % b)

\* a variant of the reduction that divides by nothing
reduceNot(n, d) == [n |-> n, d |-> d]

\* reduce()
reduce(n, d) ==
    IF n = 0 THEN [n |-> 0, d |-> 1]
    ELSE [n |-> n \div gcdLoop(Abs(n), Abs(d)), d |-> d \div gcdLoop(Abs(n), Abs(d))]

\* the constructor, for a denominator that is not zero
ExactFraction(numerator, denominator) ==
    IF denominator < 0 THEN reduce(-numerator, -denominator)
    ELSE reduce(numerator, denominator)

plus(a, other) == ExactFraction(a.n * other.d + other.n * a.d, a.d * other.d)
sub(a, other) == ExactFraction(a.n * other.d - other.n * a.d, a.d * other.d)
mul(a, other) == ExactFraction(a.n * other.n, a.d * other.d)
div(a, other) == ExactFraction(a.n * other.d, a.d * other.n)
neg(a) == ExactFraction(-a.n, a.d)
absolute(a) == ExactFraction(Abs(a.n), a.d)

\* a Fraction is built from integers of MaxOperand at most, and the
\* arithmetic goes on while numerator and denominator stay within MaxMagnitude
MaxOperand == 3
MaxMagnitude == 12
Operand == (-MaxOperand)..MaxOperand

InitFraction ==
    /\ Idle
    /\ pc \in {"Fraction", "fractions.Fraction"}
    /\ input = <<>>
    /\ output = <<>>

\* the Fraction held, after the operation op on the arguments args; its
\* numerator and denominator are given for the bound
Held(op, args, value, numerator, denominator) ==
    /\ Abs(numerator) <= MaxMagnitude
    /\ Abs(denominator) <= MaxMagnitude
    /\ input' = <<[op |-> op, args |-> args]>>
    /\ output' = <<value>>
    /\ UNCHANGED <<equation, mode, pc, parsed, built, nullspace, reason, redoxAnalysis,
                   result, escaped, previous>>

HeldFraction(op, args, value) == Held(op, args, value, value.num, value.den)
HeldExact(op, args, value) == Held(op, args, value, value.n, value.d)

\* new Fraction(num, den) of the balancer; a zero denominator throws
NewFraction ==
    /\ pc = "Fraction"
    /\ \E num \in Operand, den \in Operand \ {0} :
        HeldFraction("new", <<num, den>>, Fraction(num, den))

\* one of add, subtract, multiply, divide with another Fraction, or abs;
\* divide by a Fraction that is zero throws in the constructor
Arithmetic ==
    /\ pc = "Fraction"
    /\ output # <<>>
    /\ \E num \in Operand, den \in Operand \ {0} :
        \/ HeldFraction("add", <<output[1], Fraction(num, den)>>,
                        add(output[1], Fraction(num, den)))
        \/ HeldFraction("subtract", <<output[1], Fraction(num, den)>>,
                        subtract(output[1], Fraction(num, den)))
        \/ HeldFraction("multiply", <<output[1], Fraction(num, den)>>,
                        multiply(output[1], Fraction(num, den)))
        \/ /\ num # 0
           /\ HeldFraction("divide", <<output[1], Fraction(num, den)>>,
                           divide(output[1], Fraction(num, den)))
        \/ HeldFraction("abs", <<output[1]>>, abs(output[1]))

\* new Fraction(numerator, denominator) of the fractions module
NewExactFraction ==
    /\ pc = "fractions.Fraction"
    /\ \E numerator \in Operand, denominator \in Operand \ {0} :
        HeldExact("new", <<numerator, denominator>>, ExactFraction(numerator, denominator))

\* one of add, sub, mul, div with another Fraction, or neg, or abs; div by a
\* Fraction that is zero throws
ExactArithmetic ==
    /\ pc = "fractions.Fraction"
    /\ output # <<>>
    /\ \E numerator \in Operand, denominator \in Operand \ {0} :
        \/ HeldExact("add", <<output[1], ExactFraction(numerator, denominator)>>,
                     plus(output[1], ExactFraction(numerator, denominator)))
        \/ HeldExact("sub", <<output[1], ExactFraction(numerator, denominator)>>,
                     sub(output[1], ExactFraction(numerator, denominator)))
        \/ HeldExact("mul", <<output[1], ExactFraction(numerator, denominator)>>,
                     mul(output[1], ExactFraction(numerator, denominator)))
        \/ /\ numerator # 0
           /\ HeldExact("div", <<output[1], ExactFraction(numerator, denominator)>>,
                        div(output[1], ExactFraction(numerator, denominator)))
        \/ HeldExact("neg", <<output[1]>>, neg(output[1]))
        \/ HeldExact("abs", <<output[1]>>, absolute(output[1]))

NextFraction == NewFraction \/ Arithmetic \/ NewExactFraction \/ ExactArithmetic
SpecFraction == InitFraction /\ [][NextFraction]_vars

(***************************************************************************)
(* runBatchBalance: processChunk runs once inside the call and then once   *)
(* for each timer it sets.  One step for each pass of its loop; the stages *)
(* of balanceChemicalEquation run between the call and the push of the     *)
(* entry.  The times (timeMs, totalMs) are left out.                       *)
(***************************************************************************)
MaxBatch == 3
MaxChunk == 3
\* chunkSize = 50 where the options name none
defaultChunkSize == 50
ChunkSizes == (-1)..MaxChunk \cup {defaultChunkSize}

Blank == <<" ", " ">>
Padded == <<" ">> \o WaterTight \o <<" ">>
HydrogenUnchanged == <<"H", "2", " ", "-", ">", " ", "H", "2">>
BatchEquations == {Blank, Padded, BareNumber, HydrogenUnchanged, NoArrow}

InitBatch ==
    /\ equation = <<>>
    /\ mode \in Modes
    /\ pc = "runBatchBalance"
    /\ parsed = <<>> /\ built = <<>> /\ nullspace = <<>> /\ reason = ""
    /\ redoxAnalysis = <<>> /\ result = <<>> /\ escaped = FALSE /\ previous = <<>>
    /\ \E n \in 0..MaxBatch : \E equations \in [1..n -> BatchEquations] :
        \E chunkSize \in ChunkSizes :
            input = <<[equations |-> equations, chunkSize |-> chunkSize]>>
    /\ output = <<>>

\* results, index and the loop counter c of the chunk, with the timers set
\* and not yet fired, the calls of onComplete made, and what onProgress was
\* last told
Batch(results, index, c, timers, completions, reported) ==
    [results |-> results, index |-> index, c |-> c, timers |-> timers,
     completions |-> completions, reported |-> reported]

\* a variant of pushed that puts the entry in front
pushedInFront(results, entry) == <<entry>> \o results

\* results.push(entry)
pushed(results, entry) == Append(results, entry)

\* { input: eq, skipped: true }
skippedEntry(eq) ==
    [input |-> eq, skipped |-> TRUE, success |-> FALSE, balanced |-> <<>>, error |-> "",
     diagnostic |-> <<>>]

\* the entry of an equation that was balanced or not; includeDiagnostics is
\* left at its default
entryOf(eq, value) ==
    [input |-> eq, skipped |-> FALSE, success |-> value.success,
     balanced |-> IF value.success THEN value.balanced ELSE <<>>,
     error |-> IF value.success THEN "" ELSE value.error,
     diagnostic |-> IF ~value.success THEN value.diagnostic ELSE <<>>]

\* the catch around the call of balanceChemicalEquation
runtimeError == Failure("RUNTIME_ERROR")

\* the test of the for loop
inChunk(batch) ==
    batch.c < input[1].chunkSize /\ batch.index < Len(input[1].equations)

nextEquation(batch) == Trim(input[1].equations[batch.index + 1])

\* the call: the first processChunk starts
RunBatchBalance ==
    /\ pc = "runBatchBalance"
    /\ output' = <<Batch(<<>>, 0, 0, 0, 0, <<>>)>>
    /\ pc' = "processChunk"
    /\ UNCHANGED <<equation, mode, parsed, built, nullspace, reason, redoxAnalysis,
                   result, escaped, previous, input>>

\* a pass of the loop over a blank equation
SkipBlank ==
    /\ pc = "processChunk"
    /\ inChunk(output[1])
    /\ nextEquation(output[1]) = <<>>
    /\ output' = <<[output[1] EXCEPT
                        !.results = pushed(@, skippedEntry(nextEquation(output[1]))),
                        !.index = @ + 1, !.c = @ + 1]>>
    /\ UNCHANGED <<equation, mode, pc, parsed, built, nullspace, reason, redoxAnalysis,
                   result, escaped, previous, input>>

\* a pass of the loop that calls balanceChemicalEquation(eq, mode)
CallBalance ==
    /\ pc = "processChunk"
    /\ inChunk(output[1])
    /\ nextEquation(output[1]) # <<>>
    /\ equation' = nextEquation(output[1])
    /\ pc' = "parse"
    /\ UNCHANGED <<mode, parsed, built, nullspace, reason, redoxAnalysis, result, escaped,
                   previous, input, output>>

\* the rest of the pass, after balanceChemicalEquation returned or threw
PushEntry ==
    /\ pc = "returned"
    /\ output' = <<[output[1] EXCEPT
                        !.results = pushed(@, entryOf(equation,
                                                      IF escaped THEN runtimeError
                                                      ELSE result[1])),
                        !.index = @ + 1, !.c = @ + 1]>>
    /\ pc' = "processChunk"
    /\ equation' = <<>>
    /\ parsed' = <<>> /\ built' = <<>> /\ nullspace' = <<>> /\ reason' = ""
    /\ redoxAnalysis' = <<>> /\ result' = <<>> /\ escaped' = FALSE
    /\ UNCHANGED <<mode, previous, input>>

\* the end of a chunk with equations left: onProgress, and setTimeout
YieldChunk ==
    /\ pc = "processChunk"
    /\ ~inChunk(output[1])
    /\ output[1].index < Len(input[1].equations)
    /\ output' = <<[output[1] EXCEPT !.reported = <<output[1].index>>,
                                     !.timers = @ + 1]>>
    /\ pc' = "yield"
    /\ UNCHANGED <<equation, mode, parsed, built, nullspace, reason, redoxAnalysis,
                   result, escaped, previous, input>>

\* the end of the last chunk: onProgress, and onComplete
Complete ==
    /\ pc = "processChunk"
    /\ ~inChunk(output[1])
    /\ output[1].index >= Len(input[1].equations)
    /\ output' = <<[output[1] EXCEPT !.reported = <<output[1].index>>,
                                     !.completions = @ + 1]>>
    /\ pc' = "yield"
    /\ UNCHANGED <<equation, mode, parsed, built, nullspace, reason, redoxAnalysis,
                   result, escaped, previous, input>>

\* a timer fires: processChunk starts again
ProcessChunk ==
    /\ pc = "yield"
    /\ output[1].timers > 0
    /\ output' = <<[output[1] EXCEPT !.timers = @ - 1, !.c = 0]>>
    /\ pc' = "processChunk"
    /\ UNCHANGED <<equation, mode, parsed, built, nullspace, reason, redoxAnalysis,
                   result, escaped, previous, input>>

NextBatch ==
    \/ RunBatchBalance
    \/ SkipBlank
    \/ CallBalance
    \/ Parse
    \/ Validate
    \/ Build
    \/ Nullspace
    \/ Select
    \/ Diagnose
    \/ Catch
    \/ PushEntry
    \/ YieldChunk
    \/ Complete
    \/ ProcessChunk

SpecBatch == InitBatch /\ [][NextBatch]_vars

\* balanceChemicalEquation, once called, goes from stage to stage and returns
Stages == {"parse", "validate", "build", "nullspace", "select", "diagnose", "catch"}
Balancing == pc \in Stages /\ pc' \in Stages \cup {"returned"} /\ pc' # pc

\* the steps of runBatchBalance and processChunk themselves
Looping == RunBatchBalance \/ SkipBlank \/ CallBalance \/ PushEntry \/ YieldChunk \/ Complete

\* the one thread runs every call to its end, and a timer of delay 0 fires
SpecBatchFair ==
    SpecBatch /\ WF_vars(Looping) /\ WF_pc(Balancing) /\ WF_vars(ProcessChunk)

NextWritten == Next \/ BalanceWritten
SpecWritten == Init /\ [][NextWritten]_vars

NextSpectator == Next \/ BalanceWithSpectator
SpecSpectator == Init /\ [][NextSpectator]_vars

returned == pc = "returned" /\ ~escaped
succeeded == returned /\ result[1].success

(***************************************************************************)
(* Conservation, positivity and minimality of a successful result          *)
(***************************************************************************)
coefficientsReturned == result[1].coefficients
reactantsReturned == result[1].reactants
productsReturned == result[1].products

RECURSIVE countIn(_, _)
countIn(composition, el) ==
    IF composition = <<>> THEN 0
    ELSE (IF Head(composition).el = el THEN Head(composition).cnt ELSE 0)
         + countIn(Tail(composition), el)

elementsIn(species) ==
    UNION {{species[i].composition[k].el : k \in 1..Len(species[i].composition)} :
           i \in 1..Len(species)}

\* sum of coefficient * count of el over a side whose first coefficient is
\* at position offset + 1
RECURSIVE massOf(_, _, _, _)
massOf(species, coefficients, offset, el) ==
    IF species = <<>> THEN 0
    ELSE coefficients[offset + 1] * countIn(Head(species).composition, el)
         + massOf(Tail(species), coefficients, offset + 1, el)

RECURSIVE chargeOf(_, _, _)
chargeOf(species, coefficients, offset) ==
    IF species = <<>> THEN 0
    ELSE coefficients[offset + 1] * Head(species).charge
         + chargeOf(Tail(species), coefficients, offset + 1)

\* C1: in every successful result, for every element of the returned
\* reactants and products, the sum over the reactants of coefficient times
\* count equals the sum over the products, the counts being those of the
\* compositions the returned species carry
MassConservation ==
    succeeded =>
        \A el \in elementsIn(reactantsReturned \o productsReturned) :
            massOf(reactantsReturned, coefficientsReturned, 0, el)
              = massOf(productsReturned, coefficientsReturned, Len(reactantsReturned), el)

\* a success whose counts and coefficients are not all 1
MassConservationWitness ==
    /\ succeeded
    /\ Len(reactantsReturned) > 1
    /\ \E i \in 1..Len(coefficientsReturned) : coefficientsReturned[i] > 1
    /\ \E el \in elementsIn(reactantsReturned) :
          massOf(reactantsReturned, coefficientsReturned, 0, el) > 2

Positivity ==
    succeeded =>
        /\ Len(coefficientsReturned) = Len(reactantsReturned) + Len(productsReturned)
        /\ \A i \in 1..Len(coefficientsReturned) :
              coefficientsReturned[i] \in Int /\ coefficientsReturned[i] >= 1

\* a success found from a basis vector with a negative entry
PositivityWitness ==
    /\ succeeded
    /\ \E v \in 1..Len(nullspace[1].basis) :
          \E j \in 1..Len(nullspace[1].basis[v]) : nullspace[1].basis[v][j].num < 0

\* C4: in every successful result no integer above 1 divides every
\* returned coefficient, whether the coefficients come from one basis
\* vector or from the search over integer combinations
Minimality ==
    succeeded =>
        \A d \in 2..MaxOf(coefficientsReturned) :
            \E i \in 1..Len(coefficientsReturned) : coefficientsReturned[i] % d # 0

\* a success found by the search over integer combinations, with a
\* coefficient above 1
MinimalityWitness ==
    /\ succeeded
    /\ Len(nullspace[1].basis) > 1
    /\ bestAmong(nullspace[1].basis, Len(reactantsReturned), <<>>) = <<>>
    /\ MaxOf(coefficientsReturned) > 1

(***************************************************************************)
(* The redox scenarios                                                     *)
(***************************************************************************)
\* C5: in redox mode the permanganate equation returns a success with the
\* coefficients 1, 5, 8, 1, 5, 4
PermanganateBalanced ==
    (equation = Permanganate /\ mode = "redox" /\ pc = "returned") =>
        succeeded /\ coefficientsReturned = <<1, 5, 8, 1, 5, 4>>

\* C6: in redox mode the dichromate equation returns a success with the
\* coefficients 1, 6, 14, 2, 6, 7
DichromateBalanced ==
    (equation = Dichromate /\ mode = "redox" /\ pc = "returned") =>
        succeeded /\ coefficientsReturned = <<1, 6, 14, 2, 6, 7>>

FeCore == <<"F", "e">>
ClCore == <<"C", "l">>
BaCore == <<"B", "a">>
NaCore == <<"N", "a">>
SCore == <<"S">>
SO4Core == <<"S", "O", "4">>
Ion(formula, composition, charge) ==
    [formula |-> formula, composition |-> composition, charge |-> charge]
One(el) == <<[el |-> el, cnt |-> 1]>>

\* the reactants each charge-suffix equation of Named writes
ChargeSuffixEquations ==
    {DigitsSign, CaretDigitsSign, SignDigits, CaretSignDigits, Sulfate, DoubledSigns,
     SodiumChloride}
reactantsWritten(eq) ==
    IF eq \in {DigitsSign, CaretDigitsSign, SignDigits, CaretSignDigits}
    THEN <<Ion(FeCore, One(FeCore), 3), Ion(ClCore, One(ClCore), -1)>>
    ELSE IF eq = Sulfate
    THEN <<Ion(BaCore, One(BaCore), 2), Ion(SO4Core, <<[el |-> SCore, cnt |-> 1], [el |-> <<"O">>, cnt |-> 4]>>, -2)>>
    ELSE IF eq = DoubledSigns
    THEN <<Ion(BaCore, One(BaCore), 2), Ion(SCore, One(SCore), -2)>>
    ELSE <<Ion(NaCore, One(NaCore), 1), Ion(ClCore, One(ClCore), -1)>>

reactantsParsed ==
    [i \in 1..Len(parsed[1].reactants) |->
        Ion(parsed[1].reactants[i].formula, parsed[1].reactants[i].composition,
            parsed[1].reactants[i].charge)]

\* C7: a species written with a charge suffix (digits then sign, sign then
\* digits, or bare signs) parses to the core formula, the composition of
\* the core and the charge sign times magnitude
ChargeSuffixParsed ==
    (pc = "validate" /\ equation \in ChargeSuffixEquations) =>
        reactantsParsed = reactantsWritten(equation)

\* C8: in redox mode the hypochlorite equation never returns a success:
\* the value returned is a failure, a no-integer-solution error or a
\* charge-imbalance diagnostic
HypochloriteFails ==
    (equation = Hypochlorite /\ mode = "redox" /\ pc = "returned") =>
        /\ returned
        /\ ~result[1].success
        /\ result[1].error \in {"NO_INTEGER_SOLUTION", "CHARGE_IMBALANCE"}

\* the hypochlorite equation returned from redox mode, its one basis vector
\* holding a zero for the species with oxygen
HypochloriteFailsWitness ==
    /\ equation = Hypochlorite
    /\ mode = "redox"
    /\ returned
    /\ result[1].error = "NO_INTEGER_SOLUTION"
    /\ Len(nullspace[1].basis) = 1
    /\ isZero(nullspace[1].basis[1][1])

(***************************************************************************)
(* Errors as values                                                        *)
(***************************************************************************)
\* a sign written right after a caret: a species with a charge
caretCharge(eq) == \E i \in 2..Len(eq) : eq[i] \in Sign /\ eq[i - 1] = "^"

\* C9: in standard mode every equation that parses and holds a charged
\* species returns the mode-validation error and no balanced result
StandardRejectsCharged ==
    (mode = "standard" /\ pc = "returned" /\ parsed # <<>> /\ caretCharge(equation)) =>
        returned /\ ~result[1].success /\ result[1].error = "MODE_VALIDATION"

\* C10: no exception leaves balanceChemicalEquation, and what it returns
\* is a success or a failure that carries an error
NeverThrows ==
    /\ ~escaped
    /\ pc = "returned" =>
          /\ Len(result) = 1
          /\ result[1].success \in BOOLEAN
          /\ result[1].success \/ result[1].error # ""

\* a value returned by the catch block, after buildBalanceMatrix threw
NeverThrowsWitness ==
    /\ returned
    /\ built # <<>>
    /\ built[1].threw
    /\ result[1].error = "BALANCING_ERROR"

(***************************************************************************)
(* Malformed equations                                                     *)
(***************************************************************************)
\* the number of separators in a string, read from the left
RECURSIVE arrowCount(_, _)
arrowCount(s, i) ==
    IF i > Len(s) THEN 0
    ELSE IF ArrowAt(s, i) > 0 THEN 1 + arrowCount(s, i + ArrowAt(s, i))
    ELSE arrowCount(s, i + 1)

\* the text before the first separator and the text after the last one
firstArrow(s) == CHOOSE i \in 1..Len(s) : ArrowAt(s, i) > 0 /\ \A j \in 1..(i - 1) : ArrowAt(s, j) = 0
emptySide(s) ==
    \/ Trim(SubSeq(s, 1, firstArrow(s) - 1)) = <<>>
    \/ Trim(From(s, firstArrow(s) + ArrowAt(s, firstArrow(s)))) = <<>>

malformed(s) == arrowCount(s, 1) # 1 \/ emptySide(s)

\* C11: an equation with no separator, with more than one separator or with
\* an empty side is not parsed, nothing is balanced, and the value returned
\* is the invalid-format error
MalformedRejected ==
    (malformed(equation) /\ ~noReaction(equation)) =>
        /\ parsed = <<>>
        /\ built = <<>>
        /\ pc = "returned" => returned /\ result[1].error = "INVALID_FORMAT"

(***************************************************************************)
(* The redox analysis of the permanganate equation                         *)
(***************************************************************************)
\* an element is in osChanges with the flag set
flagged(analysis, element, flag) ==
    /\ element \in DOMAIN analysis.osChanges
    /\ IF flag = "oxidized" THEN analysis.osChanges[element].oxidized
       ELSE analysis.osChanges[element].reduced

\* C12: the value returned for the permanganate equation in redox mode
\* reports isRedox = true, and its redox analysis flags Mn as reduced and
\* Fe as oxidized
PermanganateIsRedox ==
    (equation = Permanganate /\ mode = "redox" /\ returned) =>
        /\ result[1].isRedox = <<TRUE>>
        /\ result[1].redoxAnalysis # <<>>
        /\ flagged(result[1].redoxAnalysis[1], <<"M", "n">>, "reduced")
        /\ flagged(result[1].redoxAnalysis[1], <<"F", "e">>, "oxidized")

(***************************************************************************)
(* Typed coefficients                                                      *)
(***************************************************************************)
\* C13: when a balanced equation is balanced again with every coefficient
\* typed in front of its species, the call succeeds with the coefficients of
\* the first call
WrittenCoefficientsIgnored ==
    (previous # <<>> /\ previous[1].kind = "written" /\ returned) =>
        /\ result[1].success
        /\ result[1].coefficients = previous[1].result.coefficients

WrittenCoefficientsIgnoredWitness ==
    /\ previous # <<>> /\ previous[1].kind = "written" /\ succeeded
    /\ equation # previous[1].equation
    /\ \E i \in 1..Len(result[1].coefficients) : result[1].coefficients[i] > 1
    /\ \E i \in 1..Len(parsed[1].reactants) : parsed[1].reactants[i].userInputCoefficient > 1

(***************************************************************************)
(* Spectators                                                              *)
(***************************************************************************)
\* the formula, charge and phase of each species of a side
speciesOf(side) ==
    [i \in 1..Len(side) |->
        [formula |-> side[i].formula, charge |-> side[i].charge, phase |-> side[i].phase]]

\* C14: balancing an equation again with one more occurrence of a species on
\* both sides has the outcome of the first call: the same success or failure,
\* and on success the same remaining species with the same coefficients
SpectatorInvariance ==
    (previous # <<>> /\ previous[1].kind = "spectator" /\ returned) =>
        /\ result[1].success = previous[1].result.success
        /\ result[1].error = previous[1].result.error
        /\ result[1].coefficients = previous[1].result.coefficients
        /\ speciesOf(result[1].reactants) = speciesOf(previous[1].result.reactants)
        /\ speciesOf(result[1].products) = speciesOf(previous[1].result.products)

(***************************************************************************)
(* The charge-imbalance diagnostic                                         *)
(***************************************************************************)
\* the species of a side with their charges left out
uncharged(side) == [i \in 1..Len(side) |-> [side[i] EXCEPT !.charge = 0]]

\* the coefficients that balance the elements alone, as a list
elementOnlyFromNullspace(n, numReactants) ==
    IF n.kind # "basis" THEN <<>> ELSE findBestIntegerSolution(n.basis, numReactants)
elementOnlyFromMatrix(b, numReactants) ==
    IF b.threw THEN <<>>
    ELSE elementOnlyFromNullspace(computeNullspace(b.matrix), numReactants)
elementOnly(reactants, products) ==
    elementOnlyFromMatrix(buildBalanceMatrix(uncharged(reactants), uncharged(products), FALSE),
                          Len(reactants))

chargesDiffer(reactants, products, coefficients) ==
    sideCharge(reactants, coefficients, 0)
        # sideCharge(products, coefficients, Len(reactants))

\* C15: in redox mode, when balancing with the charge row fails while the
\* elements alone balance and the net charges of the two sides then differ,
\* the value returned is the charge-imbalance diagnostic with these charges
ChargeImbalanceReported ==
    (/\ mode = "redox" /\ returned /\ reason # ""
     /\ elementOnly(parsed[1].reactants, parsed[1].products) # <<>>
     /\ chargesDiffer(parsed[1].reactants, parsed[1].products,
                      elementOnly(parsed[1].reactants, parsed[1].products)[1])) =>
        /\ result[1].error = "CHARGE_IMBALANCE"
        /\ result[1].diagnostic # <<>>
        /\ result[1].diagnostic[1].reactantCharge
             = sideCharge(parsed[1].reactants,
                          elementOnly(parsed[1].reactants, parsed[1].products)[1], 0)
        /\ result[1].diagnostic[1].productCharge
             = sideCharge(parsed[1].products,
                          elementOnly(parsed[1].reactants, parsed[1].products)[1],
                          Len(parsed[1].reactants))

(***************************************************************************)
(* Counter-ion suggestions                                                 *)
(***************************************************************************)
\* C16: every suggestion made for a charge difference d that is not zero
\* cancels it: its count times the charge of its ion is -d
CounterIonsCancel ==
    (called("inferCounterIons") /\ input[1] # 0) =>
        \A i \in 1..Len(output[1]) : output[1][i].count * output[1][i].charge = -input[1]

(***************************************************************************)
(* Species without elements                                                *)
(***************************************************************************)
\* a species word does not parse, or parses to a composition without elements
unparsed(w) ==
    \/ parseSpeciesWithLeadingCoeff(w) = <<>>
    \/ parseSpeciesWithLeadingCoeff(w)[1].composition = <<>>

\* C17: when a species written in the equation does not parse or parses to
\* an empty composition, the value returned is a failure
UnparsedSpeciesFails ==
    (/\ returned
     /\ \E i \in 1..Len(speciesWords(equation)) : unparsed(speciesWords(equation)[i])) =>
        ~result[1].success

(***************************************************************************)
(* The water equation                                                      *)
(***************************************************************************)
WaterBalanced ==
    <<"2", "H", "2", " ", "+", " ", "O", "2", " ", "U+2192", " ", "2", "H", "2", "O">>

\* C18: in standard mode H2 + O2 -> H2O, written with either arrow, is
\* balanced with the coefficients 2, 1, 2 and rendered as 2H2 + O2 -> 2H2O,
\* the coefficient 1 left out
WaterEquation ==
    (equation \in {Water, WaterArrow} /\ mode = "standard" /\ returned) =>
        /\ result[1].success
        /\ result[1].coefficients = <<2, 1, 2>>
        /\ result[1].balanced = WaterBalanced

WaterEquationWitness ==
    /\ equation = WaterArrow /\ mode = "standard" /\ succeeded
    /\ Len(result[1].coefficients) = 3

(***************************************************************************)
(* The coefficient selectors                                               *)
(***************************************************************************)
\* the integers are a multiple of the vector: nothing but a common factor,
\* of either sign, lies between them
multipleOf(integers, vector) ==
    /\ Len(integers) = Len(vector)
    /\ \E k \in 1..Len(vector) :
        /\ ~isZero(vector[k])
        /\ \A j \in 1..Len(vector) :
            multiply(Int2Frac(integers[j]), vector[k])
                = multiply(Int2Frac(integers[k]), vector[j])

\* C19: a candidate is accepted only when every entry is strictly positive.
\* evaluateNullspaceSolution returns coefficients that are all positive and
\* a multiple of its vector, and ChemicalBalancer.solve returns a result
\* only for a vector whose integers are all positive, one coefficient for
\* each species
SelectorsStrictlyPositive ==
    /\ (called("evaluateNullspaceSolution") /\ output[1] # <<>>) =>
          /\ \A j \in 1..Len(output[1][1].coefficients) : output[1][1].coefficients[j] > 0
          /\ multipleOf(output[1][1].coefficients, input[1].vector)
    /\ (called("ChemicalBalancer.solve") /\ output[1].threw = "") =>
          /\ \A j \in 1..Len(output[1].integerCoefficients) :
                output[1].integerCoefficients[j] > 0
          /\ Len(output[1].coefficients) = Len(input[1].parsed)

\* the part of C19 that is about evaluateNullspaceSolution
EvaluateStrictlyPositive ==
    (called("evaluateNullspaceSolution") /\ output[1] # <<>>) =>
        /\ \A j \in 1..Len(output[1][1].coefficients) : output[1][1].coefficients[j] > 0
        /\ multipleOf(output[1][1].coefficients, input[1].vector)

(***************************************************************************)
(* The nullspace basis                                                     *)
(***************************************************************************)
freeColumns == freeVarsOf(output[1].pivotCols, Len(input[1][1]))

\* the matrix times a vector is the zero vector
inNullspace(matrix, vector) ==
    \A r \in 1..Len(matrix) : isZero(rowDot(matrix[r], vector, 1))

\* C20: for a matrix with a column that is not a pivot column, the solver
\* returns one vector for each such column f, in order; the vector has 1 at
\* f and 0 at every other free column, and the matrix times it is zero
NullspaceBasis ==
    ((called("computeNullspace") \/ called("LinearAlgebra.nullspace"))
        /\ freeColumns # <<>>) =>
        /\ Len(output[1].basis) = Len(freeColumns)
        /\ \A f \in 1..Len(freeColumns) :
            /\ Len(output[1].basis[f]) = Len(input[1][1])
            /\ \A g \in 1..Len(freeColumns) :
                output[1].basis[f][freeColumns[g]] = Int2Frac(IF f = g THEN 1 ELSE 0)
            /\ inNullspace(input[1], output[1].basis[f])

NullspaceBasisWitness ==
    /\ called("LinearAlgebra.nullspace")
    /\ Len(input[1]) = 2
    /\ Len(output[1].basis) = 1
    /\ freeColumns = <<2>>
    /\ \E j \in 1..Len(output[1].basis[1]) : output[1].basis[1][j].den = 2

(***************************************************************************)
(* Partial pivoting                                                        *)
(***************************************************************************)
\* the entry of the chosen row is at least as large, in absolute value, as
\* every entry of the column in the rows not yet used
largestOfColumn(p) ==
    \A r \in p.from..Len(p.column) :
        ~GreaterNumber(abs(p.column[r]), abs(p.column[p.row]))

\* C21: in every pivot column the solver takes as pivot the entry of largest
\* absolute value among the rows not yet used as pivot rows
PivotByMagnitude ==
    (called("computeNullspace") \/ called("LinearAlgebra.nullspace")) =>
        \A k \in 1..Len(output[1].pivots) : largestOfColumn(output[1].pivots[k])

\* the same for computeNullspace alone
ComputeNullspacePivotByMagnitude ==
    called("computeNullspace") =>
        \A k \in 1..Len(output[1].pivots) : largestOfColumn(output[1].pivots[k])

(***************************************************************************)
(* The isRedox flag                                                        *)
(***************************************************************************)
\* some element's range of oxidation numbers differs between the sides
someRangeDiffers(reactants, products) ==
    \E e \in allElementsOf(reactants \o products) :
        rangeChanged(valuesOf(statesOf(reactants), e), valuesOf(statesOf(products), e))

\* C22: the isRedox flag of a balanced equation is true exactly when the
\* range of oxidation numbers of some element differs between the reactants
\* and the products, whatever the number of species on each side
IsRedoxIffRangeDiffers ==
    succeeded =>
        result[1].isRedox = <<someRangeDiffers(result[1].reactants, result[1].products)>>

\* the same when the products are at least as many as the reactants
IsRedoxIffRangeDiffersNoFewerProducts ==
    (succeeded /\ Len(result[1].products) >= Len(result[1].reactants)) =>
        result[1].isRedox = <<someRangeDiffers(result[1].reactants, result[1].products)>>

(***************************************************************************)
(* No species left on both sides                                           *)
(***************************************************************************)
sameSpecies(a, b) == a.formula = b.formula /\ a.charge = b.charge /\ a.phase = b.phase

\* C23: in a parsed equation, after duplicates are merged and spectators
\* cancelled, no reactant has the formula, charge and phase of a product
NoSpeciesOnBothSides ==
    parsed # <<>> =>
        \A i \in 1..Len(parsed[1].reactants) : \A j \in 1..Len(parsed[1].products) :
            ~sameSpecies(parsed[1].reactants[i], parsed[1].products[j])

\* a species written twice on the left and once on the right: one copy is
\* cancelled and the merged rest stays on the left
NoSpeciesOnBothSidesWitness ==
    /\ parsed # <<>>
    /\ parsed[1].canceledSpectators # <<>>
    /\ parsed[1].products # <<>>
    /\ \E i \in 1..Len(parsed[1].reactants) :
        /\ parsed[1].reactants[i].formula = parsed[1].canceledSpectators[1].formula
        /\ parsed[1].reactants[i].coefficient = 1

(***************************************************************************)
(* Groups that are never closed                                            *)
(***************************************************************************)
occurrences(s, c) == Cardinality({i \in 1..Len(s) : s[i] = c})

\* more openings than closings of one kind: some opening is never closed
unclosed(formula) ==
    \/ occurrences(formula, "(") > occurrences(formula, ")")
    \/ occurrences(formula, "[") > occurrences(formula, "]")

\* C24: a formula with a parenthesis or bracket that is never closed gives a
\* parse error with a position from the parser, and no composition from
\* either parser
UnclosedGroupRejected ==
    /\ (called("parseFormula") /\ unclosed(input[1])) =>
            output[1].threw /\ output[1].position \in Nat
    /\ (called("parseChemicalFormula") /\ unclosed(input[1])) => output[1] = <<>>

\* the same for the parser of the token list alone
UnclosedGroupRejectedByParser ==
    (called("parseFormula") /\ unclosed(input[1])) =>
        output[1].threw /\ output[1].position \in Nat

\* the same for parseChemicalFormula alone
UnclosedGroupRejectedByCore ==
    (called("parseChemicalFormula") /\ unclosed(input[1])) => output[1] = <<>>


(***************************************************************************)
(* Phase labels and parenthesised groups                                   *)
(***************************************************************************)
\* the formula opens with a parenthesised run that holds no other parenthesis
parenthesised(formula) ==
    /\ Len(formula) >= 2
    /\ formula[1] = "("
    /\ closingFrom(formula, 2) <= Len(formula)
    /\ \A i \in 2..(closingFrom(formula, 2) - 1) : formula[i] # "("

contentOf(formula) == SubSeq(formula, 2, closingFrom(formula, 2) - 1)

\* type and value of each token, the final EOF left out
kinds(tokens) ==
    [i \in 1..(Len(tokens) - 1) |-> <<tokens[i].type, tokens[i].value>>]

\* the tokens of a run read as a phase label, or as a group
runTokens(content) ==
    IF content \in phaseLabels THEN << <<"PHASE", content>> >>
    ELSE << <<"LPAREN", <<"(">> >> >> \o kinds(tokenize(content))
            \o << <<"RPAREN", <<")">> >> >>

startsWith(s, prefix) ==
    Len(s) >= Len(prefix) /\ SubSeq(s, 1, Len(prefix)) = prefix

\* the lexer's half of C25
RunIsPhaseOrGroup ==
    (called("ChemicalLexer.tokenize") /\ parenthesised(input[1])) =>
        startsWith(kinds(output[1]), runTokens(contentOf(input[1])))

\* parseChemicalFormula's half of C25
PhaseIsALabel ==
    (called("parseChemicalFormula") /\ output[1] # <<>>) =>
        (output[1][1].phase = <<>> \/ output[1][1].phase \in phaseLabels)

\* C25: a parenthesised run is a phase only when its content is exactly s, l,
\* g or aq; any other run is tokenized as LPAREN, the tokens of its content
\* and RPAREN, nothing of the content lost
PhaseOnlyForLabels == RunIsPhaseOrGroup /\ PhaseIsALabel


(***************************************************************************)
(* Isotope labels                                                          *)
(***************************************************************************)
carbon13 == <<"[", "1", "3", "C", "]">>

\* formulas written as atoms only, [13C] among them
AtomPieces == {<<"C", "a">>, <<"C">>, <<"O">>, <<"H">>, carbon13}
atomLists == UNION {[1..n -> AtomPieces] : n \in 1..MaxPieces}

timesWritten(pieces, piece) == Cardinality({i \in DOMAIN pieces : pieces[i] = piece})

\* the isotope has an entry of its own, with its own count
isotopeApart(composition, n) ==
    n > 0 => \E i \in 1..Len(composition) :
                /\ composition[i].el # <<"C">>
                /\ composition[i].cnt = n
                /\ \E j \in 1..Len(composition[i].el) : composition[i].el[j] = "3"

keptApart(composition, pieces) ==
    /\ Count(composition, <<"C">>) = timesWritten(pieces, <<"C">>)
    /\ isotopeApart(composition, timesWritten(pieces, carbon13))

\* the parser of the token list: the isotope is stored under "C-13"
IsotopeKeptApartByParser ==
    called("parseFormula") =>
        \A pieces \in atomLists : joined(pieces) = input[1] =>
            /\ ~output[1].threw
            /\ keptApart(output[1].elements, pieces)

\* parseChemicalFormula
IsotopeKeptApartByCore ==
    called("parseChemicalFormula") =>
        \A pieces \in atomLists : joined(pieces) = input[1] =>
            /\ output[1] # <<>>
            /\ keptApart(output[1][1].composition, pieces)

\* C26: an atom written [13C] is counted under a key of its own, never
\* together with the plain C atoms of the same formula
IsotopeKeptApart == IsotopeKeptApartByParser /\ IsotopeKeptApartByCore

IsotopeKeptApartByParserWitness ==
    /\ called("parseFormula")
    /\ input[1] = carbon13 \o <<"C">> \o carbon13
    /\ Count(output[1].elements, <<"C">>) = 1
    /\ Count(output[1].elements, <<"C", "-", "1", "3">>) = 2


(***************************************************************************)
(* The oxidation number of hydrogen                                        *)
(***************************************************************************)
group12Metal(element) == element \in alkaliMetals \/ element \in alkalineEarths

\* hydrogen together with other elements
hydrogenCompound(composition) ==
    Len(composition) > 1 /\ HasKey(composition, <<"H">>)

onlyMetalsBesidesHydrogen(composition) ==
    \A i \in 1..Len(composition) :
        composition[i].el # <<"H">> => group12Metal(composition[i].el)

\* C27: in a species of several elements hydrogen is -1 only when every other
\* element is a Group-1 or Group-2 metal, and +1 in every other species
HydrogenMinusOneOnlyInHydrides ==
    (called("computeOxidationStates") /\ hydrogenCompound(input[1].composition)) =>
        output[1][<<"H">>] =
            IF onlyMetalsBesidesHydrogen(input[1].composition)
            THEN Int2Frac(-1) ELSE Int2Frac(1)

\* what the rule does: -1 as soon as one such metal is among the elements
HydrogenMinusOneWithAnyMetal ==
    (called("computeOxidationStates") /\ hydrogenCompound(input[1].composition)) =>
        output[1][<<"H">>] =
            IF \E i \in 1..Len(input[1].composition) :
                    group12Metal(input[1].composition[i].el)
            THEN Int2Frac(-1) ELSE Int2Frac(1)

\* sodium hydroxide, written NaOH
SodiumHydroxideHydrogen ==
    /\ called("computeOxidationStates")
    /\ input[1] = [composition |-> <<[el |-> <<"N", "a">>, cnt |-> 1],
                                     [el |-> <<"O">>, cnt |-> 1],
                                     [el |-> <<"H">>, cnt |-> 1]>>,
                   charge |-> 0]
    /\ output[1][<<"H">>] = Int2Frac(-1)


(***************************************************************************)
(* Fractions in lowest terms                                               *)
(***************************************************************************)
\* denominator positive, no common divisor, and zero written 0/1
lowestTerms(numerator, denominator) ==
    /\ denominator > 0
    /\ \A k \in 2..denominator : ~(numerator % k = 0 /\ denominator % k = 0)
    /\ numerator = 0 => denominator = 1

\* C28: every Fraction that a construction or an arithmetic operation gives
\* has a positive denominator, numerator and denominator without a common
\* divisor, and is 0/1 when it is zero
FractionInLowestTerms ==
    /\ (pc = "Fraction" /\ output # <<>>) =>
            lowestTerms(output[1].num, output[1].den)
    /\ (pc = "fractions.Fraction" /\ output # <<>>) =>
            lowestTerms(output[1].n, output[1].d)

\* a division by a negative Fraction, of both classes, that gave a Fraction
\* whose terms had to be reduced and whose sign had to be moved
FractionInLowestTermsWitness ==
    /\ output # <<>>
    /\ input[1].op \in {"divide", "div"}
    /\ \/ /\ pc = "Fraction"
          /\ input[1].args[2].num < 0
          /\ input[1].args[1].num * input[1].args[2].den # output[1].num
          /\ output[1].num < 0
       \/ /\ pc = "fractions.Fraction"
          /\ input[1].args[2].n < 0
          /\ input[1].args[1].n * input[1].args[2].d # output[1].n
          /\ output[1].n < 0


(***************************************************************************)
(* Batches                                                                 *)
(***************************************************************************)
completed == pc = "yield" /\ output[1].completions > 0

\* C29: when the batch has completed, results has one entry for each
\* equation given, in the order given, the blank ones as skipped entries
BatchResultsInOrder ==
    completed =>
        /\ Len(output[1].results) = Len(input[1].equations)
        /\ \A i \in 1..Len(input[1].equations) :
            /\ output[1].results[i].input = Trim(input[1].equations[i])
            /\ output[1].results[i].skipped = (Trim(input[1].equations[i]) = <<>>)

\* three equations in chunks of two: one balanced, one blank, one that fails
BatchResultsInOrderWitness ==
    /\ completed
    /\ input[1].chunkSize = 2
    /\ input[1].equations = <<Padded, Blank, BareNumber>>
    /\ output[1].results[1].success
    /\ output[1].results[2].skipped
    /\ ~output[1].results[3].success /\ ~output[1].results[3].skipped


\* onComplete is never called twice, nor before the last equation
completedOnceAtTheEnd ==
    output # <<>> =>
        /\ output[1].completions <= 1
        /\ output[1].completions = 1 => output[1].index = Len(input[1].equations)

\* C30: whatever the equations and the chunkSize, onComplete is called in
\* the end, once, and not before every equation has been processed
BatchCompletesOnce ==
    /\ <>(output # <<>> /\ output[1].completions = 1)
    /\ []completedOnceAtTheEnd

\* the same for a chunkSize of 1 or more, or no equations
BatchCompletesOnceWithChunks ==
    /\ (input[1].chunkSize >= 1 \/ input[1].equations = <<>>)
            ~> (output # <<>> /\ output[1].completions = 1)
    /\ []completedOnceAtTheEnd

\* a chunk that ends where it began, with a timer set again
ChunkWithoutProgress ==
    /\ pc = "yield"
    /\ output[1].timers = 1
    /\ output[1].index = 0
    /\ output[1].reported = <<0>>
====
